---- MODULE Spec2Model ----
(***************************************************************************)
(* A model of the Gmail MCP server (gmail_mcp.py): the shared utilities    *)
(* (truncate_response, extract_email_body, extract_attachments_info, the   *)
(* two single-message formatters), the raw mailbox client                  *)
(* (make_gmail_request) and the gmail_* tool coroutines.                   *)
(*                                                                         *)
(* Text is a sequence of one-character strings, so that slicing, length    *)
(* and concatenation are those of Python's str.  Python's None, where a    *)
(* str is expected, is the one-element sequence None, which is no text.    *)
(* A dict is a function from its keys; a missing key is a missing domain   *)
(* element.                                                                *)
(***************************************************************************)
EXTENDS Integers, Sequences, FiniteSets, TLC

VARIABLES
    pc,         \* position of the running call: "call", "detail", "done"
    tool,       \* the function or tool being run
    params,     \* its arguments
    requests,   \* the provider requests issued so far, in order
    prompts,    \* the credential prompts issued so far (ctx.elicit)
    listing,    \* the list response a list tool is working through
    detailed,   \* detailed_messages / detailed_drafts fetched so far
    rendered,   \* the local `result` handed to truncate_response
    returned    \* what the call gave back to its caller

vars == <<pc, tool, params, requests, prompts, listing, detailed, rendered, returned>>

(***************************************************************************)
(* Bounds of the model.                                                    *)
(***************************************************************************)
\* how far beyond CHARACTER_LIMIT the generated contents reach
MaxOver == 3
\* how many times truncate_response is applied to its own output
MaxCalls == 2
\* how many immediate child parts a generated payload has at most
MaxParts == 2
\* how many parts a generated part tree has at most
MaxNodes == 3
\* the most entries a page of a listing has
MaxList == 2

(***************************************************************************)
(* Python values.                                                          *)
(***************************************************************************)
None == <<"<None>">>
NoneDict == [none__ |-> TRUE]
EmptyDict == [k \in {} |-> None]

Rep(c, n) == [i \in 1..n |-> c]

\* bool(x) of an Optional[str]
TruthyStr(x) == x # None /\ x # <<>>
\* bool(d) of an Optional[dict]
TruthyDict(d) == d # NoneDict /\ DOMAIN d # {}
\* d.get(k, default)
Get(d, k, default) == IF k \in DOMAIN d THEN d[k] ELSE default

RECURSIVE Cat(_)
\* "".join(parts), by halves
Cat(parts) ==
    IF parts = <<>> THEN <<>>
    ELSE IF Len(parts) = 1 THEN parts[1]
    ELSE Cat(SubSeq(parts, 1, Len(parts) \div 2))
         \o Cat(SubSeq(parts, Len(parts) \div 2 + 1, Len(parts)))

Digit(d) == <<"0","1","2","3","4","5","6","7","8","9">>[d + 1]

RECURSIVE IntToStr(_)
\* str(n) of a non-negative int
IntToStr(n) == IF n < 10 THEN <<Digit(n)>> ELSE IntToStr(n \div 10) \o <<Digit(n % 10)>>

\* t in s
Contains(s, t) ==
    \E i \in 1..(Len(s) - Len(t) + 1) : \A j \in 1..Len(t) : s[i + j - 1] = t[j]

(***************************************************************************)
(* Constants of gmail_mcp.py.                                              *)
(***************************************************************************)
CHARACTER_LIMIT == 25000
DEFAULT_MAX_RESULTS == 20

(***************************************************************************)
(* truncate_response                                                       *)
(***************************************************************************)
\* truncate_response cutting one character short of the limit
truncate_response_short(content, metadata) ==
    IF Len(content) <= CHARACTER_LIMIT
    THEN content
    ELSE SubSeq(content, 1, CHARACTER_LIMIT - 1)
         \o <<"\n","\n","[","R","e","s","p","o","n","s","e"," ","t","r","u","n","c","a","t","e",
              "d"," ","a","t"," ">>
         \o IntToStr(CHARACTER_LIMIT)
         \o <<" ","c","h","a","r","a","c","t","e","r","s","."," ">>
         \o (IF TruthyDict(metadata)
             THEN <<"U","s","e"," ","f","i","l","t","e","r","s"," ","o","r"," ","p","a","g","i",
                    "n","a","t","i","o","n"," ","t","o"," ","r","e","f","i","n","e"," ","r","e",
                    "s","u","l","t","s",".","]">>
             ELSE <<"O","r","i","g","i","n","a","l"," ","c","o","n","t","e","n","t"," ","w","a",
                    "s"," ","l","o","n","g","e","r",".","]">>)

truncate_response(content, metadata) ==
    IF Len(content) <= CHARACTER_LIMIT
    THEN content
    ELSE LET truncated == SubSeq(content, 1, CHARACTER_LIMIT)
             \* "\n\n[Response truncated at {CHARACTER_LIMIT} characters. "
             truncation_msg ==
                 <<"\n","\n","[","R","e","s","p","o","n","s","e"," ","t","r","u","n","c","a",
                   "t","e","d"," ","a","t"," ">>
                 \o IntToStr(CHARACTER_LIMIT)
                 \o <<" ","c","h","a","r","a","c","t","e","r","s","."," ">>
         IN  IF TruthyDict(metadata)
             THEN truncated \o truncation_msg
                  \* "Use filters or pagination to refine results.]"
                  \o <<"U","s","e"," ","f","i","l","t","e","r","s"," ","o","r"," ","p","a","g",
                       "i","n","a","t","i","o","n"," ","t","o"," ","r","e","f","i","n","e"," ",
                       "r","e","s","u","l","t","s",".","]">>
             ELSE truncated \o truncation_msg
                  \* "Original content was longer.]"
                  \o <<"O","r","i","g","i","n","a","l"," ","c","o","n","t","e","n","t"," ","w",
                       "a","s"," ","l","o","n","g","e","r",".","]">>

(***************************************************************************)
(* Results of a call: a returned value or a raised exception.              *)
(***************************************************************************)
\* a result x (a value or an exception) handed on: the exception itself, or
\* F of the value
Bind(x, F(_)) == IF x.kind = "raised" THEN x ELSE F(x.value)

NoReturn == [kind |-> "none", value |-> <<>>]
Returned(s) == [kind |-> "value", value |-> s]
\* an exception of class cls whose str() is msg
Raised(cls, msg) == [kind |-> "raised", cls |-> cls, value |-> msg]

(***************************************************************************)
(* base64.urlsafe_b64decode(data).decode("utf-8", errors="ignore")         *)
(***************************************************************************)
B64Alphabet ==
    <<"A","B","C","D","E","F","G","H","I","J","K","L","M","N","O","P","Q","R","S","T","U","V",
      "W","X","Y","Z","a","b","c","d","e","f","g","h","i","j","k","l","m","n","o","p","q","r",
      "s","t","u","v","w","x","y","z","0","1","2","3","4","5","6","7","8","9","+","/">>

\* the translation urlsafe_b64decode applies first: "-" to "+", "_" to "/"
UrlsafeTranslate(c) == IF c = "-" THEN "+" ELSE IF c = "_" THEN "/" ELSE c

\* table_a2b_base64: the sextet of an alphabet character, 64 for any other
B64Value(c) ==
    IF \E v \in 1..64 : B64Alphabet[v] = c
    THEN (CHOOSE v \in 1..64 : B64Alphabet[v] = c) - 1
    ELSE 64

\* one turn of the loop of binascii.a2b_base64 (not strict) on character ch:
\* st holds quad_pos, leftchar, pads and the bytes produced so far, and done
\* once the loop was left at a padding character
A2bStep(st, ch) ==
    LET c == UrlsafeTranslate(ch)
        this_ch == B64Value(c)
    IN  IF st.done THEN st
        ELSE IF c = "="
        THEN IF st.quad_pos >= 2 /\ st.quad_pos + st.pads + 1 >= 4
             THEN [st EXCEPT !.done = TRUE]
             ELSE [st EXCEPT !.pads = IF st.quad_pos >= 2 THEN @ + 1 ELSE @]
        ELSE IF this_ch >= 64 THEN st
        ELSE CASE st.quad_pos = 0 ->
                     [st EXCEPT !.quad_pos = 1, !.leftchar = this_ch, !.pads = 0]
               [] st.quad_pos = 1 ->
                     [st EXCEPT !.quad_pos = 2, !.leftchar = this_ch % 16, !.pads = 0,
                                !.out = Append(@, st.leftchar * 4 + this_ch \div 16)]
               [] st.quad_pos = 2 ->
                     [st EXCEPT !.quad_pos = 3, !.leftchar = this_ch % 4, !.pads = 0,
                                !.out = Append(@, st.leftchar * 16 + this_ch \div 4)]
               [] st.quad_pos = 3 ->
                     [st EXCEPT !.quad_pos = 0, !.leftchar = 0, !.pads = 0,
                                !.out = Append(@, st.leftchar * 64 + this_ch)]

RECURSIVE A2bLoop(_, _, _, _)
\* the turns of the loop on characters lo..hi of s, in order
A2bLoop(s, lo, hi, st) ==
    IF lo > hi THEN st
    ELSE IF lo = hi THEN A2bStep(st, s[lo])
    ELSE LET left == A2bLoop(s, lo, (lo + hi) \div 2, st)
         IN  IF left.done THEN left ELSE A2bLoop(s, (lo + hi) \div 2 + 1, hi, left)

\* binascii.a2b_base64 (not strict) from character i on, with quad_pos,
\* leftchar and pads as in its loop and out the bytes produced so far
A2bBase64(s, i, quad_pos, leftchar, pads, out) ==
    LET st == A2bLoop(s, i, Len(s), [quad_pos |-> quad_pos, leftchar |-> leftchar,
                                     pads |-> pads, out |-> out, done |-> FALSE])
    IN  IF st.done \/ st.quad_pos = 0 THEN Returned(st.out)
        ELSE IF st.quad_pos = 1
        THEN Raised("binascii.Error",
                 <<"I","n","v","a","l","i","d"," ","b","a","s","e","6","4","-","e","n","c","o",
                   "d","e","d"," ","s","t","r","i","n","g",":"," ","n","u","m","b","e","r"," ",
                   "o","f"," ","d","a","t","a"," ","c","h","a","r","a","c","t","e","r","s"," ","(">>
                 \o IntToStr((Len(st.out) \div 3) * 4 + 1)
                 \o <<")"," ","c","a","n","n","o","t"," ","b","e"," ","1"," ","m","o","r","e"," ",
                      "t","h","a","n"," ","a"," ","m","u","l","t","i","p","l","e"," ","o","f"," ",
                      "4">>)
        ELSE Raised("binascii.Error", <<"I","n","c","o","r","r","e","c","t"," ","p","a","d","d",
                                        "i","n","g">>)

urlsafe_b64decode(data) == A2bBase64(data, 1, 0, 0, 0, <<>>)

\* the printable ASCII characters, from code point 32 on
AsciiPrintable ==
    <<" ","!","\"","#","$","%","&","'","(",")","*","+",",","-",".","/","0","1","2","3","4","5",
      "6","7","8","9",":",";","<","=",">","?","@","A","B","C","D","E","F","G","H","I","J","K",
      "L","M","N","O","P","Q","R","S","T","U","V","W","X","Y","Z","[","\\","]","^","_","U+0060","a",
      "b","c","d","e","f","g","h","i","j","k","l","m","n","o","p","q","r","s","t","u","v","w",
      "x","y","z","{","|","}","~">>

\* the character of a code point: printable ASCII, the line feed, and U+00E9
\* (a character a TLA+ string cannot hold, the backtick or a non-ASCII one, is
\* the string naming its code point)
Chr(cp) ==
    CASE cp \in 32..126 -> AsciiPrintable[cp - 31]
      [] cp = 10 -> "\n"
      [] cp = 233 -> "U+00E9"

RECURSIVE Utf8Loop(_, _, _)
\* bytes lo..hi of b decoded: a byte below 128 is its character, a lead byte
\* 194..223 and the continuation byte after it are one character, and any
\* other byte is dropped; the range is cut in two where no such pair is split
Utf8Loop(b, lo, hi) ==
    IF lo > hi THEN <<>>
    ELSE IF lo = hi
    THEN CASE b[lo] < 128 -> <<Chr(b[lo])>>
           [] b[lo] \in 128..223 \/ b[lo] \in 245..255 -> <<>>
    ELSE IF hi = lo + 1
    THEN IF b[lo] \in 194..223 /\ b[hi] \in 128..191
         THEN <<Chr((b[lo] - 192) * 64 + (b[hi] - 128))>>
         ELSE Utf8Loop(b, lo, lo) \o Utf8Loop(b, hi, hi)
    ELSE LET mid == (lo + hi) \div 2
             cut == IF b[mid] \in 194..223 THEN mid - 1 ELSE mid
         IN  Utf8Loop(b, lo, cut) \o Utf8Loop(b, cut + 1, hi)

\* bytes.decode("utf-8", errors="ignore") from byte i on, for one- and two-byte
\* sequences and bytes that can start no sequence; an invalid byte is dropped
Utf8Ignore(b, i) == Utf8Loop(b, i, Len(b))

\* base64.urlsafe_b64decode(body_data).decode("utf-8", errors="ignore")
DecodeBody(body_data) ==
    Bind(urlsafe_b64decode(body_data), LAMBDA raw : Returned(Utf8Ignore(raw, 1)))

(***************************************************************************)
(* extract_email_body                                                      *)
(***************************************************************************)
TextPlain == <<"t","e","x","t","/","p","l","a","i","n">>

RECURSIVE PlainPartBody_first_plain(_, _)
\* the loop ending at the first text/plain part, whether or not it has data
PlainPartBody_first_plain(parts, i) ==
    IF i > Len(parts) THEN NoReturn
    ELSE LET part == parts[i]
             body_data == Get(Get(part, "body", EmptyDict), "data", None)
         IN  IF Get(part, "mimeType", None) = TextPlain
             THEN (IF TruthyStr(body_data) THEN DecodeBody(body_data) ELSE NoReturn)
             ELSE PlainPartBody_first_plain(parts, i + 1)

RECURSIVE PlainPartBody(_, _)
\* the loop over payload["parts"] from part i on: the decoded data of the first
\* text/plain part that has data, or NoReturn when the loop ends without one
PlainPartBody(parts, i) ==
    IF i > Len(parts) THEN NoReturn
    ELSE LET part == parts[i]
             body_data == Get(Get(part, "body", EmptyDict), "data", None)
         IN  IF Get(part, "mimeType", None) = TextPlain /\ TruthyStr(body_data)
             THEN DecodeBody(body_data)
             ELSE PlainPartBody(parts, i + 1)

\* the loop over payload["parts"], when payload has parts
PartsBody(payload) ==
    IF "parts" \in DOMAIN payload THEN PlainPartBody(payload.parts, 1) ELSE NoReturn

\* payload["body"]["data"] decoded when there is data, else ""
TopLevelBody(payload) ==
    LET body_data == Get(Get(payload, "body", EmptyDict), "data", None)
    IN  IF TruthyStr(body_data) THEN DecodeBody(body_data) ELSE Returned(<<>>)

\* what the first stage returned, or else the second stage
OrElse(first, second) == IF first # NoReturn THEN first ELSE second

\* extract_email_body taking the top-level data first
extract_email_body_top_first(message) ==
    LET payload == Get(message, "payload", EmptyDict)
        body_data == Get(Get(payload, "body", EmptyDict), "data", None)
    IN  IF TruthyStr(body_data) THEN DecodeBody(body_data)
        ELSE OrElse(PartsBody(payload), Returned(<<>>))

extract_email_body(message) ==
    OrElse(PartsBody(Get(message, "payload", EmptyDict)),
           TopLevelBody(Get(message, "payload", EmptyDict)))

(***************************************************************************)
(* extract_attachments_info                                                *)
(***************************************************************************)
\* the dict appended for a part that has a filename
AttachmentDescriptor(part) ==
    [filename |-> part.filename,
     mime_type |-> Get(part, "mimeType", None),
     size |-> Get(Get(part, "body", EmptyDict), "size", 0),
     attachment_id |-> Get(Get(part, "body", EmptyDict), "attachmentId", None)]

RECURSIVE process_part(_)
RECURSIVE process_parts(_)
\* process_part leaving out the parts nested inside a part
process_part_shallow(part) ==
    IF TruthyStr(Get(part, "filename", None)) THEN <<AttachmentDescriptor(part)>> ELSE <<>>

\* what process_part(part) appends to attachments, in order
process_part(part) ==
    (IF TruthyStr(Get(part, "filename", None)) THEN <<AttachmentDescriptor(part)>> ELSE <<>>)
    \o (IF "parts" \in DOMAIN part THEN process_parts(part.parts) ELSE <<>>)

\* for subpart in parts: process_part(subpart)
process_parts(parts) ==
    IF parts = <<>> THEN <<>>
    ELSE process_part(Head(parts)) \o process_parts(Tail(parts))

extract_attachments_info(message) ==
    LET payload == Get(message, "payload", EmptyDict)
    IN  IF "parts" \in DOMAIN payload THEN process_parts(payload.parts) ELSE <<>>

(***************************************************************************)
(* Header mapping and the two single-message formatters.                   *)
(***************************************************************************)
\* {h["name"]: h["value"] for h in headers}: a later pair replaces an earlier
\* one of the same name
HeadersDict(hs) ==
    [n \in {hs[i].name : i \in 1..Len(hs)} |->
        hs[CHOOSE i \in 1..Len(hs) :
              hs[i].name = n /\ \A j \in (i + 1)..Len(hs) : hs[j].name # n].value]

\* the headers dict every renderer builds from a message
MessageHeaders(message) ==
    HeadersDict(Get(Get(message, "payload", EmptyDict), "headers", <<>>))

\* the default shown for a missing Subject, were it left empty
NoSubjectEmpty == <<>>

NoSubject == <<"(","N","o"," ","S","u","b","j","e","c","t",")">>
Unknown == <<"U","n","k","n","o","w","n">>

RECURSIVE Join(_, _)
\* sep.join(items)
Join(sep, items) ==
    IF items = <<>> THEN <<>>
    ELSE IF Len(items) = 1 THEN items[1]
    ELSE items[1] \o sep \o Join(sep, Tail(items))

\* how an f-string shows an Optional[str]
Str(x) == IF x = None THEN <<"N","o","n","e">> ELSE x

\* str(KeyError(key)) for a missing key
KeyError(key) == Raised("KeyError", <<"'">> \o key \o <<"'">>)

\* format_email_markdown showing "Unknown" for a missing subject
format_email_markdown_unknown(message, include_body) ==
    LET headers == MessageHeaders(message)
        labels == Get(message, "labelIds", <<>>)
    IN  IF "id" \notin DOMAIN message THEN KeyError(<<"i","d">>)
        ELSE Bind(IF include_body THEN extract_email_body(message) ELSE Returned(<<>>),
                  LAMBDA body : Returned(
            <<"#"," ","E","m","a","i","l",":"," ">> \o Get(headers, "Subject", Unknown) \o <<"\n","\n">>
            \o <<"*","*","F","r","o","m",":","*","*"," ">> \o Get(headers, "From", Unknown) \o <<"\n">>
            \o <<"*","*","T","o",":","*","*"," ">> \o Get(headers, "To", Unknown) \o <<"\n">>
            \o (IF TruthyStr(Get(headers, "Cc", None))
                THEN <<"*","*","C","c",":","*","*"," ">> \o headers.Cc \o <<"\n">> ELSE <<>>)
            \o <<"*","*","D","a","t","e",":","*","*"," ">> \o Get(headers, "Date", Unknown) \o <<"\n">>
            \o <<"*","*","M","e","s","s","a","g","e"," ","I","D",":","*","*"," ">> \o message.id \o <<"\n">>
            \o (IF labels # <<>>
                THEN <<"*","*","L","a","b","e","l","s",":","*","*"," ">> \o Join(<<","," ">>, labels) \o <<"\n">> ELSE <<>>)
            \o (IF include_body
                THEN <<"\n","#","#"," ","B","o","d","y","\n","\n">> \o (IF body # <<>> THEN body ELSE <<"(","N","o"," ","b","o","d","y"," ","c","o","n","t","e","n","t",")">>)
                ELSE <<>>)))

format_email_markdown(message, include_body) ==
    LET headers == MessageHeaders(message)
        labels == Get(message, "labelIds", <<>>)
    IN  IF "id" \notin DOMAIN message THEN KeyError(<<"i","d">>)
        ELSE Bind(IF include_body THEN extract_email_body(message) ELSE Returned(<<>>),
                  LAMBDA body : Returned(
            <<"#"," ","E","m","a","i","l",":"," ">> \o Get(headers, "Subject", NoSubject) \o <<"\n","\n">>
            \o <<"*","*","F","r","o","m",":","*","*"," ">> \o Get(headers, "From", Unknown) \o <<"\n">>
            \o <<"*","*","T","o",":","*","*"," ">> \o Get(headers, "To", Unknown) \o <<"\n">>
            \o (IF TruthyStr(Get(headers, "Cc", None))
                THEN <<"*","*","C","c",":","*","*"," ">> \o headers.Cc \o <<"\n">> ELSE <<>>)
            \o <<"*","*","D","a","t","e",":","*","*"," ">> \o Get(headers, "Date", Unknown) \o <<"\n">>
            \o <<"*","*","M","e","s","s","a","g","e"," ","I","D",":","*","*"," ">> \o message.id \o <<"\n">>
            \o (IF labels # <<>>
                THEN <<"*","*","L","a","b","e","l","s",":","*","*"," ">> \o Join(<<","," ">>, labels) \o <<"\n">> ELSE <<>>)
            \o (IF include_body
                THEN <<"\n","#","#"," ","B","o","d","y","\n","\n">> \o (IF body # <<>> THEN body ELSE <<"(","N","o"," ","b","o","d","y"," ","c","o","n","t","e","n","t",")">>)
                ELSE <<>>)))

\* the dict format_email_json returns
format_email_json(message) ==
    LET headers == MessageHeaders(message)
    IN  IF "id" \notin DOMAIN message THEN KeyError(<<"i","d">>)
        ELSE Bind(extract_email_body(message), LAMBDA body : Returned(
            [id |-> message.id,
             thread_id |-> Get(message, "threadId", None),
             subject |-> Get(headers, "Subject", NoSubject),
             from |-> Get(headers, "From", Unknown),
             to |-> Get(headers, "To", Unknown),
             cc |-> Get(headers, "Cc", None),
             date |-> Get(headers, "Date", Unknown),
             timestamp |-> Get(message, "internalDate", None),
             labels |-> Get(message, "labelIds", <<>>),
             snippet |-> Get(message, "snippet", None),
             body |-> body]))

(***************************************************************************)
(* json.dumps(value, indent=2)                                             *)
(***************************************************************************)
JStr(s) == [t |-> "str", v |-> s]
JInt(n) == [t |-> "int", v |-> n]
JBool(b) == [t |-> "bool", v |-> b]
JNull == [t |-> "null"]
JList(items) == [t |-> "list", v |-> items]
\* a dict, as its <<key, value>> pairs in insertion order
JObj(pairs) == [t |-> "dict", v |-> pairs]
\* an Optional[str]
JOptStr(s) == IF s = None THEN JNull ELSE JStr(s)

\* how the encoder writes one character of a str (ensure_ascii)
JsonEscapeChar(c) ==
    CASE c = "\"" -> <<"\\","\"">>
      [] c = "\\" -> <<"\\","\\">>
      [] c = "\n" -> <<"\\","n">>
      [] c = "U+00E9" -> <<"\\","u","0","0","e","9">>
      [] OTHER -> <<c>>

RECURSIVE JsonEscapeRange(_, _, _)
\* the escaped characters lo..hi of s, by halves
JsonEscapeRange(s, lo, hi) ==
    IF lo > hi THEN <<>>
    ELSE IF lo = hi THEN JsonEscapeChar(s[lo])
    ELSE JsonEscapeRange(s, lo, (lo + hi) \div 2)
         \o JsonEscapeRange(s, (lo + hi) \div 2 + 1, hi)

JsonString(s) ==
    <<"\"">>
    \o (IF SelectSeq(s, LAMBDA c : JsonEscapeChar(c) # <<c>>) = <<>>
        THEN s ELSE JsonEscapeRange(s, 1, Len(s)))
    \o <<"\"">>

RECURSIVE JsonDumps(_, _)
\* the text of value at nesting depth level, two spaces of indent per level
JsonDumps(value, level) ==
    LET inner == <<"\n">> \o Rep(" ", 2 * (level + 1))
        outer == <<"\n">> \o Rep(" ", 2 * level)
    IN  CASE value.t = "str" -> JsonString(value.v)
          [] value.t = "int" -> IntToStr(value.v)
          [] value.t = "bool" -> IF value.v THEN <<"t","r","u","e">> ELSE <<"f","a","l","s","e">>
          [] value.t = "null" -> <<"n","u","l","l">>
          [] value.t = "list" ->
                IF value.v = <<>> THEN <<"[","]">>
                ELSE <<"[">> \o inner
                     \o Join(<<",">> \o inner,
                             [i \in 1..Len(value.v) |-> JsonDumps(value.v[i], level + 1)])
                     \o outer \o <<"]">>
          [] value.t = "dict" ->
                IF value.v = <<>> THEN <<"{","}">>
                ELSE <<"{">> \o inner
                     \o Join(<<",">> \o inner,
                             [i \in 1..Len(value.v) |->
                                 JsonString(value.v[i][1]) \o <<":"," ">>
                                 \o JsonDumps(value.v[i][2], level + 1)])
                     \o outer \o <<"}">>

\* the dict of format_email_json as json.dumps sees it, keys in the order the
\* dict literal gives them
EmailJson(e) ==
    JObj(<< <<<<"i","d">>, JStr(e.id)>>,
            <<<<"t","h","r","e","a","d","_","i","d">>, JOptStr(e.thread_id)>>,
            <<<<"s","u","b","j","e","c","t">>, JStr(e.subject)>>,
            <<<<"f","r","o","m">>, JStr(e.from)>>,
            <<<<"t","o">>, JStr(e.to)>>,
            <<<<"c","c">>, JOptStr(e.cc)>>,
            <<<<"d","a","t","e">>, JStr(e.date)>>,
            <<<<"t","i","m","e","s","t","a","m","p">>, JOptStr(e.timestamp)>>,
            <<<<"l","a","b","e","l","s">>, JList([i \in 1..Len(e.labels) |-> JStr(e.labels[i])])>>,
            <<<<"s","n","i","p","p","e","t">>, JOptStr(e.snippet)>>,
            <<<<"b","o","d","y">>, JStr(e.body)>> >>)

(***************************************************************************)
(* make_gmail_request: one credential prompt, then one HTTP request.       *)
(***************************************************************************)
\* what the provider (or the credential prompt) answers to one call:
\*   "ok"            a 2xx response whose body is the JSON value json
\*   "status"        a non-2xx response with status code and error body
\*   "transport"     no response (httpx.ConnectError)
\*   "not_json"      a 2xx response whose body is not JSON
\*   "no_credential" ctx.elicit failed, no request was sent
OkReply(json) == [kind |-> "ok", json |-> json]
StatusReply(code, error) == [kind |-> "status", code |-> code, error |-> error]

\* the failures a call can meet: 404 with the provider's message, 401 with a body
\* that is not JSON, 500 with an "error" object without message
FailureReplies ==
    { StatusReply(404, [error |-> [message |-> <<"N","o","t"," ","F","o","u","n","d">>]]),
      StatusReply(401, NoneDict),
      StatusReply(500, [error |-> EmptyDict]),
      [kind |-> "transport"],
      [kind |-> "not_json"],
      [kind |-> "no_credential"] }

\* the entry make_gmail_request adds to the request log
Request(method, endpoint, query, json_data) ==
    [method |-> method, endpoint |-> endpoint, params |-> query, json_data |-> json_data]

\* whether a call answered by reply got as far as sending its request
RequestSent(reply) == reply.kind # "no_credential"

\* what make_gmail_request returns or raises when the provider answers reply
make_gmail_request(reply) ==
    CASE reply.kind = "ok" -> Returned(reply.json)
      [] reply.kind = "status" ->
            Raised("httpx.HTTPStatusError",
                   <<"G","m","a","i","l"," ","A","P","I"," ","e","r","r","o","r",":"," ">> \o IntToStr(reply.code)
                   \o (IF reply.error # NoneDict /\ "error" \in DOMAIN reply.error
                       THEN <<" ","-"," ">> \o Get(reply.error.error, "message", <<"U","n","k","n","o","w","n"," ","e","r","r","o","r">>)
                       ELSE <<>>))
      [] reply.kind = "transport" ->
            Raised("httpx.ConnectError", <<"A","l","l"," ","c","o","n","n","e","c","t","i","o","n"," ","a","t","t","e",
                    "m","p","t","s"," ","f","a","i","l","e","d">>)
      [] reply.kind = "not_json" ->
            Raised("json.JSONDecodeError", <<"E","x","p","e","c","t","i","n","g"," ","v","a","l","u","e",":"," ","l","i",
                    "n","e"," ","1"," ","c","o","l","u","m","n"," ","1"," ","(","c","h","a","r",
                    " ","0",")">>)
      [] reply.kind = "no_credential" ->
            Raised("Exception", <<"c","r","e","d","e","n","t","i","a","l"," ","p","r","o","m","p",
                                  "t"," ","f","a","i","l","e","d">>)

(***************************************************************************)
(* The two except clauses that close every tool.                           *)
(***************************************************************************)
\* the tool's diagnostic around str(e) for an httpx.HTTPStatusError
StatusDiagnostic(name, msg) ==
    CASE name = "gmail_search_messages" ->
            <<"E","r","r","o","r"," ","s","e","a","r","c","h","i","n","g"," ","G","m","a","i","l",
              ":"," ">> \o msg
            \o <<"."," ","P","l","e","a","s","e"," ","c","h","e","c","k"," ","y","o","u","r"," ",
                 "q","u","e","r","y"," ","s","y","n","t","a","x"," ","a","n","d"," ","t","r","y",
                 " ","a","g","a","i","n",".">>
      [] name = "gmail_summarize_emails" ->
            <<"E","r","r","o","r"," ","f","e","t","c","h","i","n","g"," ","e","m","a","i","l","s",
              " ","f","o","r"," ","s","u","m","m","a","r","y",":"," ">> \o msg
            \o <<"."," ","P","l","e","a","s","e"," ","c","h","e","c","k"," ","y","o","u","r"," ",
                 "q","u","e","r","y"," ","s","y","n","t","a","x",".">>
      [] name = "gmail_get_message" ->
            <<"E","r","r","o","r"," ","r","e","t","r","i","e","v","i","n","g"," ","m","e","s","s",
              "a","g","e",":"," ">> \o msg
            \o <<"."," ","P","l","e","a","s","e"," ","v","e","r","i","f","y"," ","t","h","e"," ",
                 "m","e","s","s","a","g","e"," ","I","D"," ","i","s"," ","c","o","r","r","e","c",
                 "t",".">>
      [] name = "gmail_get_thread" ->
            <<"E","r","r","o","r"," ","r","e","t","r","i","e","v","i","n","g"," ","t","h","r","e",
              "a","d",":"," ">> \o msg
            \o <<"."," ","P","l","e","a","s","e"," ","v","e","r","i","f","y"," ","t","h","e"," ",
                 "t","h","r","e","a","d"," ","I","D"," ","i","s"," ","c","o","r","r","e","c","t",
                 ".">>
      [] name = "gmail_get_attachment_text" ->
            <<"E","r","r","o","r"," ","d","o","w","n","l","o","a","d","i","n","g"," ","a","t","t",
              "a","c","h","m","e","n","t",":"," ">> \o msg
            \o <<"."," ","P","l","e","a","s","e"," ","v","e","r","i","f","y"," ","t","h","e"," ",
                 "m","e","s","s","a","g","e"," ","a","n","d"," ","a","t","t","a","c","h","m","e",
                 "n","t"," ","I","D","s"," ","a","r","e"," ","c","o","r","r","e","c","t",".">>
      [] name = "gmail_send_message" ->
            <<"E","r","r","o","r"," ","s","e","n","d","i","n","g"," ","e","m","a","i","l",":"," ">> \o msg
            \o <<"."," ","P","l","e","a","s","e"," ","c","h","e","c","k"," ","r","e","c","i","p",
                 "i","e","n","t"," ","a","d","d","r","e","s","s","e","s"," ","a","n","d"," ","t",
                 "r","y"," ","a","g","a","i","n",".">>
      [] name = "gmail_create_draft" ->
            <<"E","r","r","o","r"," ","c","r","e","a","t","i","n","g"," ","d","r","a","f","t",":",
              " ">> \o msg
            \o <<"."," ","P","l","e","a","s","e"," ","c","h","e","c","k"," ","y","o","u","r"," ",
                 "i","n","p","u","t"," ","a","n","d"," ","t","r","y"," ","a","g","a","i","n",".">>
      [] name = "gmail_list_drafts" -> <<"E","r","r","o","r"," ","l","i","s","t","i","n","g"," ",
                                         "d","r","a","f","t","s",":"," ">> \o msg
      [] name = "gmail_delete_draft" ->
            <<"E","r","r","o","r"," ","d","e","l","e","t","i","n","g"," ","d","r","a","f","t",":",
              " ">> \o msg
            \o <<"."," ","P","l","e","a","s","e"," ","v","e","r","i","f","y"," ","t","h","e"," ",
                 "d","r","a","f","t"," ","I","D"," ","i","s"," ","c","o","r","r","e","c","t",".">>
      [] name = "gmail_list_labels" -> <<"E","r","r","o","r"," ","l","i","s","t","i","n","g"," ",
                                         "l","a","b","e","l","s",":"," ">> \o msg
      [] name = "gmail_create_label" ->
            <<"E","r","r","o","r"," ","c","r","e","a","t","i","n","g"," ","l","a","b","e","l",":",
              " ">> \o msg \o <<"."," ","T","h","e"," ","l","a","b","e","l"," ","n","a","m","e",
                                " ","m","a","y"," ","a","l","r","e","a","d","y"," ","e","x","i",
                                "s","t",".">>
      [] name = "gmail_modify_message_labels" ->
            <<"E","r","r","o","r"," ","m","o","d","i","f","y","i","n","g"," ","l","a","b","e","l",
              "s",":"," ">> \o msg
            \o <<"."," ","P","l","e","a","s","e"," ","v","e","r","i","f","y"," ","m","e","s","s",
                 "a","g","e"," ","a","n","d"," ","l","a","b","e","l"," ","I","D","s",".">>
      [] name = "gmail_mark_message_read" ->
            <<"E","r","r","o","r"," ","m","a","r","k","i","n","g"," ","m","e","s","s","a","g","e",
              ":"," ">> \o msg
            \o <<"."," ","P","l","e","a","s","e"," ","v","e","r","i","f","y"," ","t","h","e"," ",
                 "m","e","s","s","a","g","e"," ","I","D"," ","i","s"," ","c","o","r","r","e","c",
                 "t",".">>

\* a tool whose handlers catch httpx.HTTPStatusError only
Catch_status_only(name, outcome) ==
    IF outcome.kind # "raised" THEN outcome
    ELSE IF outcome.cls = "httpx.HTTPStatusError"
    THEN Returned(StatusDiagnostic(name, outcome.value))
    ELSE outcome

\* what the tool gives its caller when its try block ended in outcome
Catch(name, outcome) ==
    IF outcome.kind # "raised" THEN outcome
    ELSE IF outcome.cls = "httpx.HTTPStatusError"
    THEN Returned(StatusDiagnostic(name, outcome.value))
    ELSE Returned(<<"U","n","e","x","p","e","c","t","e","d"," ","e","r","r","o","r",":"," ">> \o outcome.value)

(***************************************************************************)
(* Input models: the Field constraints pydantic checks before a tool runs. *)
(***************************************************************************)
Whitespace == { " ", "\n", "\t" }

\* str.strip(), which str_strip_whitespace=True applies to every str field
Strip(s) ==
    LET keep == { i \in 1..Len(s) : s[i] \notin Whitespace }
    IN  IF keep = {} THEN <<>>
        ELSE SubSeq(s, CHOOSE i \in keep : \A j \in keep : i <= j,
                       CHOOSE i \in keep : \A j \in keep : j <= i)

Invalid == [valid |-> FALSE]
Valid(model) == [valid |-> TRUE, model |-> model]

\* a required str field: present, and of min_length..max_length once stripped
StrOk(args, key, min_length, max_length) ==
    /\ key \in DOMAIN args
    /\ Len(Strip(args[key])) >= min_length
    /\ Len(Strip(args[key])) <= max_length
\* an Optional[str] field with default None
OptStr(args, key) == IF key \in DOMAIN args /\ args[key] # None THEN Strip(args[key]) ELSE None
\* an int field with a default and ge..le
IntOk(args, key, default, ge, le) ==
    Get(args, key, default) >= ge /\ Get(args, key, default) <= le
\* a required str field with min_length only
StrMinOk(args, key, min_length) ==
    key \in DOMAIN args /\ Len(Strip(args[key])) >= min_length
\* extra='forbid': no field besides the declared ones
Declared(args, fields) == DOMAIN args \subseteq fields
\* ResponseFormat, default MARKDOWN
FormatOk(args) == Get(args, "response_format", "markdown") \in {"markdown", "json"}

\* GmailSearchInput without the upper bound of max_results
GmailSearchInput_unbounded(args) ==
    IF /\ Declared(args, {"query", "max_results", "page_token", "response_format"})
       /\ StrOk(args, "query", 1, 500)
       /\ Get(args, "max_results", DEFAULT_MAX_RESULTS) >= 1
       /\ FormatOk(args)
    THEN Valid([query |-> Strip(args.query),
                max_results |-> Get(args, "max_results", DEFAULT_MAX_RESULTS),
                page_token |-> OptStr(args, "page_token"),
                response_format |-> Get(args, "response_format", "markdown")])
    ELSE Invalid

GmailSearchInput(args) ==
    IF /\ Declared(args, {"query", "max_results", "page_token", "response_format"})
       /\ StrOk(args, "query", 1, 500)
       /\ IntOk(args, "max_results", DEFAULT_MAX_RESULTS, 1, 100)
       /\ FormatOk(args)
    THEN Valid([query |-> Strip(args.query),
                max_results |-> Get(args, "max_results", DEFAULT_MAX_RESULTS),
                page_token |-> OptStr(args, "page_token"),
                response_format |-> Get(args, "response_format", "markdown")])
    ELSE Invalid

SummarizeEmailsInput(args) ==
    IF /\ Declared(args, {"query", "max_results", "include_body"})
       /\ StrOk(args, "query", 1, 500)
       /\ IntOk(args, "max_results", 10, 1, 50)
    THEN Valid([query |-> Strip(args.query),
                max_results |-> Get(args, "max_results", 10),
                include_body |-> Get(args, "include_body", TRUE)])
    ELSE Invalid

GetEmailInput(args) ==
    IF /\ Declared(args, {"message_id", "response_format", "include_attachments_info"})
       /\ StrMinOk(args, "message_id", 1)
       /\ FormatOk(args)
    THEN Valid([message_id |-> Strip(args.message_id),
                response_format |-> Get(args, "response_format", "markdown"),
                include_attachments_info |-> Get(args, "include_attachments_info", TRUE)])
    ELSE Invalid

GetThreadInput(args) ==
    IF /\ Declared(args, {"thread_id", "response_format"})
       /\ StrMinOk(args, "thread_id", 1)
       /\ FormatOk(args)
    THEN Valid([thread_id |-> Strip(args.thread_id),
                response_format |-> Get(args, "response_format", "markdown")])
    ELSE Invalid

GetAttachmentInput(args) ==
    IF /\ Declared(args, {"message_id", "attachment_id", "mime_type"})
       /\ StrMinOk(args, "message_id", 1)
       /\ StrMinOk(args, "attachment_id", 1)
       /\ StrMinOk(args, "mime_type", 0)
    THEN Valid([message_id |-> Strip(args.message_id),
                attachment_id |-> Strip(args.attachment_id),
                mime_type |-> Strip(args.mime_type)])
    ELSE Invalid

SendEmailInput(args) ==
    IF /\ Declared(args, {"to", "subject", "body", "cc", "bcc", "thread_id"})
       /\ StrMinOk(args, "to", 1)
       /\ StrOk(args, "subject", 1, 500)
       /\ StrMinOk(args, "body", 1)
    THEN Valid([to |-> Strip(args.to), subject |-> Strip(args.subject),
                body |-> Strip(args.body), cc |-> OptStr(args, "cc"),
                bcc |-> OptStr(args, "bcc"), thread_id |-> OptStr(args, "thread_id")])
    ELSE Invalid

CreateDraftInput(args) ==
    IF /\ Declared(args, {"to", "subject", "body", "cc"})
       /\ StrMinOk(args, "to", 1)
       /\ StrOk(args, "subject", 1, 500)
       /\ StrMinOk(args, "body", 1)
    THEN Valid([to |-> Strip(args.to), subject |-> Strip(args.subject),
                body |-> Strip(args.body), cc |-> OptStr(args, "cc")])
    ELSE Invalid

ListDraftsInput(args) ==
    IF /\ Declared(args, {"max_results", "page_token", "response_format"})
       /\ IntOk(args, "max_results", DEFAULT_MAX_RESULTS, 1, 100)
       /\ FormatOk(args)
    THEN Valid([max_results |-> Get(args, "max_results", DEFAULT_MAX_RESULTS),
                page_token |-> OptStr(args, "page_token"),
                response_format |-> Get(args, "response_format", "markdown")])
    ELSE Invalid

DeleteDraftInput(args) ==
    IF Declared(args, {"draft_id"}) /\ StrMinOk(args, "draft_id", 1)
    THEN Valid([draft_id |-> Strip(args.draft_id)])
    ELSE Invalid

ListLabelsInput(args) ==
    IF Declared(args, {"response_format"}) /\ FormatOk(args)
    THEN Valid([response_format |-> Get(args, "response_format", "markdown")])
    ELSE Invalid

CreateLabelInput(args) ==
    IF /\ Declared(args, {"name", "label_list_visibility", "message_list_visibility"})
       /\ StrOk(args, "name", 1, 100)
       /\ Get(args, "label_list_visibility", <<"l","a","b","e","l","S","h","o","w">>)
             \in {<<"l","a","b","e","l","S","h","o","w">>, <<"l","a","b","e","l","S","h","o","w","I","f","U","n","r","e","a","d">>, <<"l","a","b","e","l","H","i","d","e">>}
       /\ Get(args, "message_list_visibility", <<"s","h","o","w">>) \in {<<"s","h","o","w">>, <<"h","i","d","e">>}
    THEN Valid([name |-> Strip(args.name),
                label_list_visibility |-> Get(args, "label_list_visibility", <<"l","a","b","e","l","S","h","o","w">>),
                message_list_visibility |-> Get(args, "message_list_visibility", <<"s","h","o","w">>)])
    ELSE Invalid

ModifyLabelsInput(args) ==
    IF /\ Declared(args, {"message_id", "add_label_ids", "remove_label_ids"})
       /\ StrMinOk(args, "message_id", 1)
    THEN Valid([message_id |-> Strip(args.message_id),
                add_label_ids |-> Get(args, "add_label_ids", None),
                remove_label_ids |-> Get(args, "remove_label_ids", None)])
    ELSE Invalid

MarkReadInput(args) ==
    IF /\ Declared(args, {"message_id", "mark_as_read"})
       /\ StrMinOk(args, "message_id", 1)
       /\ "mark_as_read" \in DOMAIN args
    THEN Valid([message_id |-> Strip(args.message_id), mark_as_read |-> args.mark_as_read])
    ELSE Invalid

\* the input model of each tool's params argument
InputModel(name, args) ==
    CASE name = "gmail_search_messages" -> GmailSearchInput(args)
      [] name = "gmail_summarize_emails" -> SummarizeEmailsInput(args)
      [] name = "gmail_get_message" -> GetEmailInput(args)
      [] name = "gmail_get_thread" -> GetThreadInput(args)
      [] name = "gmail_get_attachment_text" -> GetAttachmentInput(args)
      [] name = "gmail_send_message" -> SendEmailInput(args)
      [] name = "gmail_create_draft" -> CreateDraftInput(args)
      [] name = "gmail_list_drafts" -> ListDraftsInput(args)
      [] name = "gmail_delete_draft" -> DeleteDraftInput(args)
      [] name = "gmail_list_labels" -> ListLabelsInput(args)
      [] name = "gmail_create_label" -> CreateLabelInput(args)
      [] name = "gmail_modify_message_labels" -> ModifyLabelsInput(args)
      [] name = "gmail_mark_message_read" -> MarkReadInput(args)

(***************************************************************************)
(* SpecTruncate: truncate_response applied to generated contents, and      *)
(* again to what it returned.                                              *)
(***************************************************************************)
Tok123 == <<"t","o","k","1","2","3">>

\* contents of "a"s then "b"s whose lengths lie around 0 and CHARACTER_LIMIT
TruncateContents ==
    { Rep("a", p) \o Rep("b", q) :
        p \in {0, 1, CHARACTER_LIMIT - 1, CHARACTER_LIMIT, CHARACTER_LIMIT + 1},
        q \in 0..MaxOver }

\* the metadata arguments: the default None, {}, and search's dict with and
\* without a cursor
TruncateMetadata ==
    { NoneDict, EmptyDict, [next_page_token |-> None], [next_page_token |-> Tok123] }

InitTruncate ==
    /\ pc = "call"
    /\ tool = "truncate_response"
    /\ \E c \in TruncateContents, m \in TruncateMetadata :
           params = [content |-> c, metadata |-> m, calls |-> 1]
    /\ requests = <<>>
    /\ prompts = 0
    /\ listing = NoneDict
    /\ detailed = <<>>
    /\ rendered = None
    /\ returned = NoReturn

Truncate ==
    /\ pc = "call"
    /\ tool = "truncate_response"
    /\ returned' = Returned(truncate_response(params.content, params.metadata))
    /\ pc' = "done"
    /\ UNCHANGED <<tool, params, requests, prompts, listing, detailed, rendered>>

TruncateAgain ==
    /\ pc = "done"
    /\ tool = "truncate_response"
    /\ params.calls < MaxCalls
    /\ params' = [params EXCEPT !.content = returned.value, !.calls = @ + 1]
    /\ returned' = NoReturn
    /\ pc' = "call"
    /\ UNCHANGED <<tool, requests, prompts, listing, detailed, rendered>>

NextTruncate == Truncate \/ TruncateAgain

SpecTruncate == InitTruncate /\ [][NextTruncate]_vars

\* the two fixed annotations, written out
AnnotationPaginate ==
    <<"\n","\n","[","R","e","s","p","o","n","s","e"," ","t","r","u","n","c","a","t","e",
      "d"," ","a","t"," ","2","5","0","0","0"," ","c","h","a","r","a","c","t","e","r","s",
      "."," ","U","s","e"," ","f","i","l","t","e","r","s"," ","o","r"," ","p","a","g","i",
      "n","a","t","i","o","n"," ","t","o"," ","r","e","f","i","n","e"," ","r","e","s","u",
      "l","t","s",".","]">>
AnnotationLonger ==
    <<"\n","\n","[","R","e","s","p","o","n","s","e"," ","t","r","u","n","c","a","t","e",
      "d"," ","a","t"," ","2","5","0","0","0"," ","c","h","a","r","a","c","t","e","r","s",
      "."," ","O","r","i","g","i","n","a","l"," ","c","o","n","t","e","n","t"," ","w","a",
      "s"," ","l","o","n","g","e","r",".","]">>

\* s is exactly the first n characters of content followed by annotation
PrefixThen(s, content, n, annotation) ==
    /\ Len(s) = n + Len(annotation)
    /\ \A i \in 1..n : s[i] = content[i]
    /\ \A j \in 1..Len(annotation) : s[n + j] = annotation[j]

\* C1: a content longer than 25000 characters comes back as exactly its first
\* 25000 characters followed by one of the two fixed annotations, the pagination
\* one when the flag (the metadata argument) is set and the other when it is not;
\* a content within the limit comes back unchanged, also when it is itself what
\* an earlier application returned.
C1_TruncationDeterminism ==
    (tool = "truncate_response" /\ pc = "done") =>
        IF Len(params.content) > 25000
        THEN PrefixThen(returned.value, params.content, 25000,
                        IF TruthyDict(params.metadata)
                        THEN AnnotationPaginate ELSE AnnotationLonger)
        ELSE returned.value = params.content

\* a content one character over the limit, "a" up to the limit and "b" beyond
\* it, has been truncated with the flag set
C1_Witness ==
    /\ tool = "truncate_response" /\ pc = "done"
    /\ Len(params.content) = CHARACTER_LIMIT + 1
    /\ params.content[CHARACTER_LIMIT] = "a"
    /\ params.content[CHARACTER_LIMIT + 1] = "b"
    /\ TruthyDict(params.metadata)
    /\ Len(returned.value) > CHARACTER_LIMIT

\* C2: whatever the input and the flag, the returned string is at most
\* CHARACTER_LIMIT characters long.
C2_HardCeiling ==
    (tool = "truncate_response" /\ pc = "done") => Len(returned.value) <= CHARACTER_LIMIT

(***************************************************************************)
(* SpecNormalize: the payload normalizer and the two formatters applied to *)
(* generated messages.                                                     *)
(***************************************************************************)
\* inline data: "Hi", "Body", "Top", "<b>" (with the URL-safe "-"), and data
\* whose padding is missing
DataHi == <<"S","G","k","=">>
DataBody == <<"Q","m","9","k","e","Q","=","=">>
DataTop == <<"V","G","9","w">>
DataHtml == <<"P","G","I","-">>
DataBadPadding == <<"Q","Q">>

\* the immediate child parts a generated payload is made of
BodyParts ==
    { [mimeType |-> TextPlain, body |-> [size |-> 2, data |-> DataHi]],
      [mimeType |-> TextPlain, body |-> [size |-> 4, data |-> DataBody]],
      [mimeType |-> TextPlain, body |-> [size |-> 0]],
      [mimeType |-> TextPlain, body |-> [size |-> 0, data |-> <<>>]],
      [mimeType |-> TextPlain, body |-> [size |-> 1, data |-> DataBadPadding]],
      [mimeType |-> <<"t","e","x","t","/","h","t","m","l">>, body |-> [size |-> 3, data |-> DataHtml]],
      [mimeType |-> <<"m","u","l","t","i","p","a","r","t","/","a","l","t","e","r","n","a","t","i",
                      "v","e">>, body |-> [size |-> 0],
       parts |-> << [mimeType |-> TextPlain, body |-> [size |-> 4, data |-> DataBody]] >>],
      [body |-> [size |-> 2, data |-> DataHi]] }

\* the sequences over S of length at most n
SeqUpTo(S, n) == UNION { [1..k -> S] : k \in 0..n }

\* payloads with and without parts, with and without top-level data
BodyPayloads ==
    LET tops == { EmptyDict,
                  [body |-> [size |-> 0]],
                  [body |-> [size |-> 0, data |-> <<>>]],
                  [body |-> [size |-> 3, data |-> DataTop]],
                  [body |-> [size |-> 1, data |-> DataBadPadding]] }
    IN  tops \cup { t @@ [parts |-> ps] : t \in tops, ps \in SeqUpTo(BodyParts, MaxParts) }

\* the filename of a generated part: none, empty, or one of two names
PartFilenames == { None, <<>>, <<"a",".","t","x","t">>, <<"b",".","p","d","f">> }

\* a part with filename f (None: no filename key) and child parts kids
PartNode(f, kids) ==
    [mimeType |-> <<"a","p","p","l","i","c","a","t","i","o","n","/","p","d","f">>, body |-> [size |-> 7, attachmentId |-> <<"a","t","t">>]]
    @@ (IF f = None THEN EmptyDict ELSE [filename |-> f])
    @@ (IF kids = <<>> THEN EmptyDict ELSE [parts |-> kids])

RECURSIVE PartForests(_)
\* the sequences of part trees that have n parts in all
PartForests(n) ==
    IF n = 0 THEN { <<>> }
    ELSE UNION { { <<PartNode(f, kids)>> \o rest :
                     f \in PartFilenames, kids \in PartForests(k - 1),
                     rest \in PartForests(n - k) } : k \in 1..n }

\* a part nested n deep: n - 1 parts that have nothing but parts around one
\* named part
NestedPart(n) ==
    LET around[k \in 1..n] ==
            IF k = 1 THEN [filename |-> <<"d","e","e","p",".","p","d","f">>] ELSE [parts |-> <<around[k - 1]>>]
    IN  around[n]

TreePayloads == { [parts |-> ps] : ps \in UNION { PartForests(n) : n \in 0..MaxNodes } }

HeaderValue(name) ==
    CASE name = "Subject" -> <<"H","e","l","l","o">>
      [] name = "From" -> <<"a","n","n","@","x",".","i","o">>
      [] name = "To" -> <<"b","o","b","@","x",".","i","o">>
      [] name = "Cc" -> <<"c","y","@","x",".","i","o">>
      [] name = "Date" -> <<"M","o","n",","," ","1"," ","J","a","n">>

\* the header pairs named by a set of names, in a fixed order
HeaderList(names) ==
    LET all == <<"Subject", "From", "To", "Cc", "Date">>
        F[i \in 0..5] ==
            IF i = 0 THEN <<>>
            ELSE IF all[i] \in names
            THEN Append(F[i - 1], [name |-> all[i], value |-> HeaderValue(all[i])])
            ELSE F[i - 1]
    IN  F[5]

\* a header list that names Subject twice
DuplicateHeaders ==
    <<[name |-> "Subject", value |-> <<"F","i","r","s","t">>],
      [name |-> "From", value |-> <<"a","n","n","@","x",".","i","o">>],
      [name |-> "Subject", value |-> <<"S","e","c","o","n","d">>]>>

\* messages with every choice of present headers, with and without an id,
\* labels and a decodable body
FormatMessages ==
    { ident @@ labels @@ [payload |-> [headers |-> hs] @@ body] :
        hs \in { HeaderList(names) :
                    names \in SUBSET {"Subject", "From", "To", "Cc", "Date"} }
               \cup {DuplicateHeaders},
        ident \in { EmptyDict, [id |-> <<"m","1">>, threadId |-> <<"t","1">>] },
        labels \in { EmptyDict, [labelIds |-> <<<<"I","N","B","O","X">>, <<"U","N","R","E","A","D">>>>] },
        body \in { EmptyDict, [body |-> [size |-> 3, data |-> DataTop]],
                   [body |-> [size |-> 1, data |-> DataBadPadding]] } }

InitNormalize ==
    /\ pc = "call"
    /\ \/ /\ tool = "extract_email_body"
          /\ \E p \in BodyPayloads : params = [message |-> [id |-> <<"m","1">>, payload |-> p]]
       \/ /\ tool = "extract_attachments_info"
          /\ \E p \in TreePayloads : params = [message |-> [id |-> <<"m","1">>, payload |-> p]]
       \/ /\ tool = "format_email"
          /\ \E m \in FormatMessages : params = [message |-> m]
    /\ requests = <<>>
    /\ prompts = 0
    /\ listing = NoneDict
    /\ detailed = <<>>
    /\ rendered = None
    /\ returned = NoReturn

ExtractBody ==
    /\ pc = "call"
    /\ tool = "extract_email_body"
    /\ returned' = extract_email_body(params.message)
    /\ pc' = "done"
    /\ UNCHANGED <<tool, params, requests, prompts, listing, detailed, rendered>>

ExtractAttachments ==
    /\ pc = "call"
    /\ tool = "extract_attachments_info"
    /\ returned' = Returned(extract_attachments_info(params.message))
    /\ pc' = "done"
    /\ UNCHANGED <<tool, params, requests, prompts, listing, detailed, rendered>>

\* the message rendered as Markdown, kept in rendered
FormatMarkdown ==
    /\ pc = "call"
    /\ tool = "format_email"
    /\ rendered' = format_email_markdown(params.message, TRUE)
    /\ pc' = "json"
    /\ UNCHANGED <<tool, params, requests, prompts, listing, detailed, returned>>

\* then the same message as the JSON dict
FormatJson ==
    /\ pc = "json"
    /\ tool = "format_email"
    /\ returned' = format_email_json(params.message)
    /\ pc' = "done"
    /\ UNCHANGED <<tool, params, requests, prompts, listing, detailed, rendered>>

NextNormalize == ExtractBody \/ ExtractAttachments \/ FormatMarkdown \/ FormatJson

SpecNormalize == InitNormalize /\ [][NextNormalize]_vars

\* the immediate child parts of the message's payload
ChildParts(message) == Get(Get(message, "payload", EmptyDict), "parts", <<>>)
\* the inline data of a part or payload, None when it has none
InlineData(part) == Get(Get(part, "body", EmptyDict), "data", None)
\* the children that are exactly text/plain and carry non-empty inline data
PlainChildren(message) ==
    { i \in 1..Len(ChildParts(message)) :
        /\ Get(ChildParts(message)[i], "mimeType", None) = TextPlain
        /\ TruthyStr(InlineData(ChildParts(message)[i])) }

\* C5: when the payload has a text/plain child with non-empty inline data and
\* inline data of its own, extract_email_body gives the decoded text of the first
\* such child in part order (the call ends as decoding that child's data ends),
\* not the top-level data.
C5_BodyExtractionPriority ==
    (tool = "extract_email_body" /\ pc = "done"
         /\ PlainChildren(params.message) # {}
         /\ TruthyStr(InlineData(params.message.payload))) =>
        LET first == CHOOSE i \in PlainChildren(params.message) :
                        \A j \in PlainChildren(params.message) : i <= j
        IN  returned = DecodeBody(InlineData(ChildParts(params.message)[first]))

\* an HTML part first, then two text/plain parts with different data, and
\* top-level data: the first text/plain part's "Hi" came back
C5_Witness ==
    /\ tool = "extract_email_body" /\ pc = "done"
    /\ PlainChildren(params.message) = {1, 2}
    /\ InlineData(ChildParts(params.message)[1]) = DataHi
    /\ InlineData(ChildParts(params.message)[2]) = DataBody
    /\ InlineData(params.message.payload) = DataTop
    /\ returned = Returned(<<"H","i">>)

RECURSIVE PartPaths(_)
\* the index paths of all parts of a part list, at every depth
PartPaths(parts) ==
    UNION { { <<i>> } \cup { <<i>> \o p : p \in PartPaths(Get(parts[i], "parts", <<>>)) } :
              i \in 1..Len(parts) }

RECURSIVE PartAt(_, _)
PartAt(parts, path) ==
    IF Len(path) = 1 THEN parts[path[1]]
    ELSE PartAt(parts[path[1]].parts, Tail(path))

\* p comes before q in depth-first pre-order: p is a proper prefix of q, or p
\* turns to an earlier child where they part
PreOrderBefore(p, q) ==
    \/ Len(p) < Len(q) /\ \A k \in 1..Len(p) : p[k] = q[k]
    \/ \E k \in 1..Len(p) :
          /\ k <= Len(q)
          /\ p[k] < q[k]
          /\ \A j \in 1..(k - 1) : p[j] = q[j]

\* the paths of the parts that carry a non-empty filename
NamedPaths(parts) ==
    { p \in PartPaths(parts) : TruthyStr(Get(PartAt(parts, p), "filename", None)) }

\* C6: extract_attachments_info returns one descriptor for each part with a
\* non-empty filename, whatever its depth, in depth-first pre-order, and none for
\* a part whose filename is absent or empty.
C6_AttachmentDiscovery ==
    (tool = "extract_attachments_info" /\ pc = "done") =>
        LET parts == ChildParts(params.message)
            named == NamedPaths(parts)
        IN  /\ Len(returned.value) = Cardinality(named)
            /\ \A p \in named :
                  LET d == returned.value[1 + Cardinality({ q \in named : PreOrderBefore(q, p) })]
                      part == PartAt(parts, p)
                  IN  /\ d.filename = part.filename
                      /\ d.mime_type = part.mimeType
                      /\ d.size = part.body.size
                      /\ d.attachment_id = part.body.attachmentId

\* named parts at depths 1, 2 and 3 were all found, outermost first
C6_Witness ==
    /\ tool = "extract_attachments_info" /\ pc = "done"
    /\ NamedPaths(ChildParts(params.message)) = { <<1>>, <<1, 1>>, <<1, 1, 1>> }
    /\ Len(returned.value) = 3
    /\ returned.value[1].filename = <<"a",".","t","x","t">>
    /\ returned.value[2].filename = <<"b",".","p","d","f">>
    /\ returned.value[3].filename = <<"a",".","t","x","t">>

\* the first position at which t occurs in s, 0 when it does not
Find(s, t) ==
    IF Contains(s, t)
    THEN CHOOSE i \in 1..(Len(s) - Len(t) + 1) :
            /\ \A j \in 1..Len(t) : s[i + j - 1] = t[j]
            /\ \A h \in 1..(i - 1) : \E j \in 1..Len(t) : s[h + j - 1] # t[j]
    ELSE 0

\* what a Markdown document shows after the first occurrence of label, up to the
\* end of that line
ShownAfter(doc, label) ==
    LET from == Find(doc, label) + Len(label)
        ends == { e \in from..Len(doc) : doc[e] = "\n" }
        to == IF ends = {} THEN Len(doc)
              ELSE (CHOOSE e \in ends : \A x \in ends : e <= x) - 1
    IN  SubSeq(doc, from, to)

\* C8: for one message, the subject, sender, recipient, date and message id that
\* format_email_markdown shows are the values of subject, from, to, date and id
\* that format_email_json gives, whichever of those headers are absent; and one
\* fails exactly when the other does.
C8_FormatEquivalence ==
    (tool = "format_email" /\ pc = "done") =>
        /\ rendered.kind = returned.kind
        /\ rendered.kind = "value" =>
              /\ Contains(rendered.value, <<"#"," ","E","m","a","i","l",":"," ">>)
              /\ ShownAfter(rendered.value, <<"#"," ","E","m","a","i","l",":"," ">>) = returned.value.subject
              /\ ShownAfter(rendered.value, <<"*","*","F","r","o","m",":","*","*"," ">>) = returned.value.from
              /\ ShownAfter(rendered.value, <<"*","*","T","o",":","*","*"," ">>) = returned.value.to
              /\ ShownAfter(rendered.value, <<"*","*","D","a","t","e",":","*","*"," ">>) = returned.value.date
              /\ ShownAfter(rendered.value, <<"*","*","M","e","s","s","a","g","e"," ","I","D",":","*","*"," ">>) = returned.value.id

\* a message without any header was rendered both ways
C8_Witness ==
    /\ tool = "format_email" /\ pc = "done"
    /\ params.message.payload.headers = <<>>
    /\ rendered.kind = "value"
    /\ returned.value.subject = NoSubject
    /\ returned.value.date = Unknown

(***************************************************************************)
(* The try blocks of the tools: what each builds from the provider's       *)
(* answers.  A try block ends in [result, document]: result is what it     *)
(* returns or raises, document the text it built before any truncation     *)
(* (None when it built none).                                              *)
(***************************************************************************)
\* a formatted result goes through truncate_response and is returned
Truncated(result, metadata) ==
    IF result.kind = "raised" THEN [result |-> result, document |-> None]
    ELSE [result |-> Returned(truncate_response(result.value, metadata)),
          document |-> result.value]

\* a formatted result is returned as it is
Whole(result) ==
    IF result.kind = "raised" THEN [result |-> result, document |-> None]
    ELSE [result |-> result, document |-> result.value]

Finished(document, out) == [result |-> Returned(out), document |-> document]
Failed(exc) == [result |-> exc, document |-> None]

\* the first exception among per-item results, else their texts in one
Collect(results) ==
    IF \E i \in 1..Len(results) : results[i].kind = "raised"
    THEN results[CHOOSE i \in 1..Len(results) :
                    /\ results[i].kind = "raised"
                    /\ \A j \in 1..(i - 1) : results[j].kind # "raised"]
    ELSE Returned([i \in 1..Len(results) |-> results[i].value])

\* ', '.join([a['filename'] for a in attachments])
Filenames(attachments) ==
    Join(<<","," ">>, [i \in 1..Len(attachments) |-> attachments[i].filename])

\* one numbered entry of the search results
SearchEntry(i, msg) ==
    LET headers == MessageHeaders(msg)
        attachments == extract_attachments_info(msg)
    IN  IF "id" \notin DOMAIN msg THEN KeyError(<<"i","d">>)
        ELSE Returned(
            <<"#","#"," ">> \o IntToStr(i) \o <<"."," ">> \o Get(headers, "Subject", NoSubject) \o <<"\n">>
            \o <<"-"," ","*","*","F","r","o","m",":","*","*"," ">> \o Get(headers, "From", Unknown) \o <<"\n">>
            \o <<"-"," ","*","*","D","a","t","e",":","*","*"," ">> \o Get(headers, "Date", Unknown) \o <<"\n">>
            \o <<"-"," ","*","*","M","e","s","s","a","g","e"," ","I","D",":","*","*"," ">> \o msg.id \o <<"\n">>
            \o <<"-"," ","*","*","S","n","i","p","p","e","t",":","*","*"," ">> \o Get(msg, "snippet", <<>>) \o <<"\n">>
            \o (IF attachments # <<>>
                THEN <<"-"," ","*","*","A","t","t","a","c","h","m","e","n","t","s",":","*","*"," ">> \o Filenames(attachments) \o <<"\n">> ELSE <<>>)
            \o <<"\n">>)

\* the pagination hint of the search results, shown whatever the cursor
SearchHint_always(next_page_token) ==
    <<"\n","*","*","M","o","r","e"," ","r","e","s","u","l","t","s"," ","a","v","a","i","l","a",
      "b","l","e",".","*","*"," ","U","s","e"," ","p","a","g","e","_","t","o","k","e","n","=","'">> \o next_page_token
    \o <<"'"," ","t","o"," ","g","e","t"," ","t","h","e"," ","n","e","x","t"," ","p","a","g","e",
         ".","\n">>

\* the pagination hint that closes the search results
SearchHint(next_page_token) ==
    IF TruthyStr(next_page_token)
    THEN <<"\n","*","*","M","o","r","e"," ","r","e","s","u","l","t","s"," ","a","v","a","i","l",
           "a","b","l","e",".","*","*"," ","U","s","e"," ","p","a","g","e","_","t","o","k","e",
           "n","=","'">> \o next_page_token
         \o <<"'"," ","t","o"," ","g","e","t"," ","t","h","e"," ","n","e","x","t"," ","p","a","g",
              "e",".","\n">>
    ELSE <<>>

gmail_search_messages_try(model, response, detailed_messages) ==
    Truncated(
        IF model.response_format = "markdown"
        THEN Bind(Collect([i \in 1..Len(detailed_messages) |->
                              SearchEntry(i, detailed_messages[i])]),
                  LAMBDA entries : Returned(
                      <<"#"," ","G","m","a","i","l"," ","S","e","a","r","c","h"," ","R","e","s",
                        "u","l","t","s","\n","\n">>
                      \o <<"*","*","Q","u","e","r","y",":","*","*"," ","U+0060">> \o model.query \o <<"U+0060","\n">>
                      \o <<"*","*","R","e","s","u","l","t","s",":","*","*"," ">> \o IntToStr(Len(Get(response, "messages", <<>>)))
                      \o <<" ","o","f"," ","a","p","p","r","o","x","i","m","a","t","e","l","y"," ">>
                      \o IntToStr(Get(response, "resultSizeEstimate", 0))
                      \o <<" ","t","o","t","a","l","\n","\n">>
                      \o Cat(entries)
                      \o SearchHint(Get(response, "nextPageToken", None))))
        ELSE Bind(Collect([i \in 1..Len(detailed_messages) |->
                              format_email_json(detailed_messages[i])]),
                  LAMBDA emails : Returned(JsonDumps(
                      JObj(<< <<<<"q","u","e","r","y">>, JStr(model.query)>>,
                              <<<<"r","e","s","u","l","t","_","c","o","u","n","t">>,
                                JInt(Len(Get(response, "messages", <<>>)))>>,
                              <<<<"e","s","t","i","m","a","t","e","d","_","t","o","t","a","l">>,
                                JInt(Get(response, "resultSizeEstimate", 0))>>,
                              <<<<"m","e","s","s","a","g","e","s">>,
                                JList([i \in 1..Len(emails) |-> EmailJson(emails[i])])>>,
                              <<<<"h","a","s","_","m","o","r","e">>,
                                JBool(TruthyStr(Get(response, "nextPageToken", None)))>>,
                              <<<<"n","e","x","t","_","p","a","g","e","_","t","o","k","e","n">>,
                                JOptStr(Get(response, "nextPageToken", None))>> >>), 0))),
        [next_page_token |-> Get(response, "nextPageToken", None)])

\* an entry of the summarization document that shows the whole body
SummaryEntry_whole_body(i, n, msg, include_body) ==
    LET headers == MessageHeaders(msg)
        attachments == extract_attachments_info(msg)
    IN  Bind(IF include_body THEN extract_email_body(msg) ELSE Returned(<<>>),
             LAMBDA body : Returned(
            <<"#","#"," ","E","m","a","i","l"," ">> \o IntToStr(i) \o <<"/">> \o IntToStr(n) \o <<"\n","\n">>
            \o <<"*","*","S","u","b","j","e","c","t",":","*","*"," ">> \o Get(headers, "Subject", NoSubject) \o <<"\n">>
            \o <<"*","*","F","r","o","m",":","*","*"," ">> \o Get(headers, "From", Unknown) \o <<"\n">>
            \o <<"*","*","T","o",":","*","*"," ">> \o Get(headers, "To", Unknown) \o <<"\n">>
            \o <<"*","*","D","a","t","e",":","*","*"," ">> \o Get(headers, "Date", Unknown) \o <<"\n">>
            \o <<"*","*","S","n","i","p","p","e","t",":","*","*"," ">> \o Get(msg, "snippet", <<>>) \o <<"\n">>
            \o (IF body # <<>> THEN <<"\n","*","*","C","o","n","t","e","n","t",":","*","*","\n">> \o body \o <<"\n">> ELSE <<>>)
            \o (IF attachments # <<>>
                THEN <<"*","*","A","t","t","a","c","h","m","e","n","t","s",":","*","*"," ">> \o Filenames(attachments) \o <<"\n">> ELSE <<>>)
            \o <<"\n","-","-","-","\n","\n">>))

\* one email of the summarization document
SummaryEntry(i, n, msg, include_body) ==
    LET headers == MessageHeaders(msg)
        attachments == extract_attachments_info(msg)
    IN  Bind(IF include_body THEN extract_email_body(msg) ELSE Returned(<<>>),
             LAMBDA body : Returned(
            <<"#","#"," ","E","m","a","i","l"," ">> \o IntToStr(i) \o <<"/">> \o IntToStr(n) \o <<"\n","\n">>
            \o <<"*","*","S","u","b","j","e","c","t",":","*","*"," ">> \o Get(headers, "Subject", NoSubject) \o <<"\n">>
            \o <<"*","*","F","r","o","m",":","*","*"," ">> \o Get(headers, "From", Unknown) \o <<"\n">>
            \o <<"*","*","T","o",":","*","*"," ">> \o Get(headers, "To", Unknown) \o <<"\n">>
            \o <<"*","*","D","a","t","e",":","*","*"," ">> \o Get(headers, "Date", Unknown) \o <<"\n">>
            \o <<"*","*","S","n","i","p","p","e","t",":","*","*"," ">> \o Get(msg, "snippet", <<>>) \o <<"\n">>
            \o (IF body # <<>>
                THEN <<"\n","*","*","C","o","n","t","e","n","t",":","*","*","\n">>
                     \o (IF Len(body) > 1000 THEN SubSeq(body, 1, 1000) \o <<".",".",".">> ELSE body)
                     \o <<"\n">>
                ELSE <<>>)
            \o (IF attachments # <<>>
                THEN <<"*","*","A","t","t","a","c","h","m","e","n","t","s",":","*","*"," ">> \o Filenames(attachments) \o <<"\n">> ELSE <<>>)
            \o <<"\n","-","-","-","\n","\n">>))

gmail_summarize_emails_try(model, response, detailed_messages) ==
    Truncated(
        Bind(Collect([i \in 1..Len(detailed_messages) |->
                         SummaryEntry(i, Len(Get(response, "messages", <<>>)),
                                      detailed_messages[i], model.include_body)]),
             LAMBDA entries : Returned(
                 <<"#"," ","E","m","a","i","l","s"," ","f","o","r"," ","S","u","m","m","a","r",
                   "i","z","a","t","i","o","n","\n","\n">>
                 \o <<"*","*","S","e","a","r","c","h"," ","Q","u","e","r","y",":","*","*"," ",
                      "U+0060">> \o model.query \o <<"U+0060","\n">>
                 \o <<"*","*","E","m","a","i","l","s"," ","R","e","t","r","i","e","v","e","d",":",
                      "*","*"," ">>
                 \o IntToStr(Len(Get(response, "messages", <<>>)))
                 \o <<" ","o","f"," ","a","p","p","r","o","x","i","m","a","t","e","l","y"," ">> \o IntToStr(Get(response, "resultSizeEstimate", 0))
                 \o <<" ","t","o","t","a","l","\n">>
                 \o <<"*","*","N","o","t","e",":","*","*"," ","P","l","e","a","s","e"," ","p","r",
                      "o","v","i","d","e"," ","a"," ","c","o","n","c","i","s","e"," ","s","u","m",
                      "m","a","r","y"," ","o","f"," ","t","h","e","s","e"," ","e","m","a","i","l",
                      "s",".","\n","\n">>
                 \o <<"-","-","-","\n","\n">>
                 \o Cat(entries))),
        NoneDict)

\* one numbered entry of the draft listing
DraftEntry(i, draft) ==
    IF "message" \notin DOMAIN draft THEN KeyError(<<"m","e","s","s","a","g","e">>)
    ELSE IF "id" \notin DOMAIN draft THEN KeyError(<<"i","d">>)
    ELSE Returned(
        <<"#","#"," ">> \o IntToStr(i) \o <<"."," ">>
        \o Get(MessageHeaders(draft.message), "Subject", NoSubject) \o <<"\n">>
        \o <<"-"," ","*","*","D","r","a","f","t"," ","I","D",":","*","*"," ">> \o draft.id \o <<"\n">>
        \o <<"-"," ","*","*","T","o",":","*","*"," ">> \o Get(MessageHeaders(draft.message), "To", Unknown) \o <<"\n">>
        \o <<"-"," ","*","*","S","n","i","p","p","e","t",":","*","*"," ">> \o Get(draft.message, "snippet", <<>>) \o <<"\n","\n">>)

\* one element of the "drafts" array of the JSON draft listing
DraftJson(draft) ==
    IF "id" \notin DOMAIN draft THEN KeyError(<<"i","d">>)
    ELSE IF "message" \notin DOMAIN draft THEN KeyError(<<"m","e","s","s","a","g","e">>)
    ELSE Bind(format_email_json(draft.message),
              LAMBDA email : Returned(JObj(<< <<<<"d","r","a","f","t","_","i","d">>, JStr(draft.id)>>,
                                              <<<<"m","e","s","s","a","g","e">>, EmailJson(email)>> >>)))

gmail_list_drafts_try(model, response, detailed_drafts) ==
    Truncated(
        IF model.response_format = "markdown"
        THEN Bind(Collect([i \in 1..Len(detailed_drafts) |->
                              DraftEntry(i, detailed_drafts[i])]),
                  LAMBDA entries : Returned(
                      <<"#"," ","G","m","a","i","l"," ","D","r","a","f","t","s","\n","\n","*","*",
                        "C","o","u","n","t",":","*","*"," ">>
                      \o IntToStr(Len(Get(response, "drafts", <<>>))) \o <<"\n","\n">>
                      \o Cat(entries)
                      \o (IF TruthyStr(Get(response, "nextPageToken", None))
                          THEN <<"\n","*","*","M","o","r","e"," ","d","r","a","f","t","s"," ","a",
                                 "v","a","i","l","a","b","l","e",".","*","*"," ","U","s","e"," ",
                                 "p","a","g","e","_","t","o","k","e","n","=","'">>
                               \o response.nextPageToken \o <<"'"," ","t","o"," ","g","e","t"," ","m","o","r","e",".",
                                       "\n">>
                          ELSE <<>>)))
        ELSE Bind(Collect([i \in 1..Len(detailed_drafts) |-> DraftJson(detailed_drafts[i])]),
                  LAMBDA items : Returned(JsonDumps(
                      JObj(<< <<<<"c","o","u","n","t">>, JInt(Len(Get(response, "drafts", <<>>)))>>,
                              <<<<"d","r","a","f","t","s">>, JList(items)>>,
                              <<<<"h","a","s","_","m","o","r","e">>,
                                JBool(TruthyStr(Get(response, "nextPageToken", None)))>>,
                              <<<<"n","e","x","t","_","p","a","g","e","_","t","o","k","e","n">>,
                                JOptStr(Get(response, "nextPageToken", None))>> >>), 0))),
        NoneDict)

\* the "## Attachments" section of a single message, empty without attachments
AttachmentsSection(attachments) ==
    IF attachments = <<>> THEN <<>>
    ELSE <<"\n","#","#"," ","A","t","t","a","c","h","m","e","n","t","s","\n","\n">>
         \o Cat([i \in 1..Len(attachments) |->
                    <<"-"," ","*","*">> \o attachments[i].filename \o <<"*","*"," ","(">>
                    \o Str(attachments[i].mime_type) \o <<","," ">>
                    \o IntToStr(attachments[i].size) \o <<" ","b","y","t","e","s",")","\n">>
                    \o <<" "," ","-"," ","A","t","t","a","c","h","m","e","n","t"," ","I","D",":",
                         " ">> \o Str(attachments[i].attachment_id)
                    \o <<"\n">>])

gmail_get_message_try(model, message) ==
    Truncated(
        IF model.response_format = "markdown"
        THEN Bind(format_email_markdown(message, TRUE),
                  LAMBDA markdown : Returned(
                      markdown
                      \o (IF model.include_attachments_info
                          THEN AttachmentsSection(extract_attachments_info(message))
                          ELSE <<>>)))
        ELSE Bind(format_email_json(message),
                  LAMBDA email : Returned(JsonDumps(EmailJson(email), 0))),
        NoneDict)

\* one message of the Markdown thread view
ThreadEntry(i, n, msg) ==
    IF "id" \notin DOMAIN msg THEN KeyError(<<"i","d">>)
    ELSE Bind(extract_email_body(msg), LAMBDA body : Returned(
        <<"#","#"," ","M","e","s","s","a","g","e"," ">> \o IntToStr(i) \o <<" ","o","f"," ">> \o IntToStr(n) \o <<"\n","\n">>
        \o <<"*","*","F","r","o","m",":","*","*"," ">> \o Get(MessageHeaders(msg), "From", Unknown) \o <<"\n">>
        \o <<"*","*","D","a","t","e",":","*","*"," ">> \o Get(MessageHeaders(msg), "Date", Unknown) \o <<"\n">>
        \o <<"*","*","M","e","s","s","a","g","e"," ","I","D",":","*","*"," ">> \o msg.id \o <<"\n","\n">>
        \o (IF body # <<>> THEN body ELSE <<"(","N","o"," ","b","o","d","y"," ","c","o","n","t","e","n","t",")">>)
        \o <<"\n","\n">>
        \o <<"-","-","-","\n","\n">>))

\* the Markdown and the JSON view of the messages of a thread
ThreadMarkdown(model, messages) ==
    IF messages = <<>> THEN Raised("IndexError", <<"l","i","s","t"," ","i","n","d","e","x"," ","o","u","t"," ","o","f"," ","r","a","n",
            "g","e">>)
    ELSE Bind(Collect([i \in 1..Len(messages) |->
                          ThreadEntry(i, Len(messages), messages[i])]),
              LAMBDA entries : Returned(
                  <<"#"," ","T","h","r","e","a","d",":"," ">> \o Get(MessageHeaders(messages[1]), "Subject", NoSubject)
                  \o <<"\n","\n">>
                  \o <<"*","*","T","h","r","e","a","d"," ","I","D",":","*","*"," ">> \o model.thread_id \o <<"\n">>
                  \o <<"*","*","M","e","s","s","a","g","e","s"," ","i","n"," ","t","h","r","e",
                       "a","d",":","*","*"," ">> \o IntToStr(Len(messages)) \o <<"\n","\n">>
                  \o <<"-","-","-","\n","\n">>
                  \o Cat(entries)))

ThreadJson(model, messages) ==
    Bind(Collect([i \in 1..Len(messages) |-> format_email_json(messages[i])]),
         LAMBDA emails : Returned(JsonDumps(
             JObj(<< <<<<"t","h","r","e","a","d","_","i","d">>, JStr(model.thread_id)>>,
                     <<<<"m","e","s","s","a","g","e","_","c","o","u","n","t">>, JInt(Len(messages))>>,
                     <<<<"m","e","s","s","a","g","e","s">>,
                       JList([i \in 1..Len(emails) |-> EmailJson(emails[i])])>> >>), 0)))

gmail_get_thread_try(model, thread) ==
    Truncated(IF model.response_format = "markdown"
              THEN ThreadMarkdown(model, Get(thread, "messages", <<>>))
              ELSE ThreadJson(model, Get(thread, "messages", <<>>)),
              NoneDict)

MimePdf == <<"a","p","p","l","i","c","a","t","i","o","n","/","p","d","f">>
MimeDocx == <<"a","p","p","l","i","c","a","t","i","o","n","/","v","n","d",".","o","p","e","n","x",
              "m","l","f","o","r","m","a","t","s","-","o","f","f","i","c","e","d","o","c","u","m",
              "e","n","t",".","w","o","r","d","p","r","o","c","e","s","s","i","n","g","m","l",".",
              "d","o","c","u","m","e","n","t">>
MimeMsword == <<"a","p","p","l","i","c","a","t","i","o","n","/","m","s","w","o","r","d">>

\* what PyPDF2 or python-docx make of the downloaded bytes: the library is not
\* installed, it fails on the bytes, or it extracts a text
Extractions ==
    { [kind |-> "import_error"],
      [kind |-> "error", value |-> <<"E","O","F"," ","m","a","r","k","e","r"," ","n","o","t"," ",
                                     "f","o","u","n","d">>],
      [kind |-> "text", value |-> <<"P","a","g","e"," ","o","n","e">>] }

\* the extraction with a failure of the PDF or DOCX library left to propagate
ExtractText_propagates(attachment_data, mime_type, extraction) ==
    IF mime_type = TextPlain THEN Returned(Utf8Ignore(attachment_data, 1))
    ELSE IF mime_type \in {MimePdf, MimeDocx, MimeMsword}
    THEN CASE extraction.kind = "import_error" -> Raised("ImportError", <<"N","o"," ","m","o","d","u","l","e"," ","n","a","m","e","d"," ","'","P","y","P","D",
            "F","2","'">>)
           [] extraction.kind = "error" -> Raised("Exception", extraction.value)
           [] extraction.kind = "text" -> Returned(extraction.value)
    ELSE Returned(<<"[","U","n","s","u","p","p","o","r","t","e","d"," ","f","i","l","e"," ","t",
                    "y","p","e",":"," ">> \o mime_type \o <<"]">>)

\* the text download_attachment_text makes of the decoded bytes
ExtractText(attachment_data, mime_type, extraction) ==
    IF mime_type = TextPlain THEN Returned(Utf8Ignore(attachment_data, 1))
    ELSE IF mime_type = MimePdf
    THEN CASE extraction.kind = "import_error" ->
                 Returned(<<"[","P","D","F"," ","t","e","x","t"," ","e","x","t","r","a","c","t",
                            "i","o","n"," ","r","e","q","u","i","r","e","s"," ","P","y","P","D",
                            "F","2"," ","l","i","b","r","a","r","y","]">>)
           [] extraction.kind = "error" ->
                 Returned(<<"[","E","r","r","o","r"," ","e","x","t","r","a","c","t","i","n","g",
                            " ","P","D","F"," ","t","e","x","t",":"," ">> \o extraction.value \o <<"]">>)
           [] extraction.kind = "text" -> Returned(extraction.value \o <<"\n">>)
    ELSE IF mime_type \in {MimeDocx, MimeMsword}
    THEN CASE extraction.kind = "import_error" ->
                 Returned(<<"[","D","O","C","X"," ","t","e","x","t"," ","e","x","t","r","a","c",
                            "t","i","o","n"," ","r","e","q","u","i","r","e","s"," ","p","y","t",
                            "h","o","n","-","d","o","c","x"," ","l","i","b","r","a","r","y","]">>)
           [] extraction.kind = "error" ->
                 Returned(<<"[","E","r","r","o","r"," ","e","x","t","r","a","c","t","i","n","g",
                            " ","D","O","C","X"," ","t","e","x","t",":"," ">> \o extraction.value \o <<"]">>)
           [] extraction.kind = "text" -> Returned(extraction.value)
    ELSE Returned(<<"[","U","n","s","u","p","p","o","r","t","e","d"," ","f","i","l","e"," ","t",
                    "y","p","e",":"," ">> \o mime_type \o <<"]">>)

\* download_attachment_text, given the provider's response and, for a PDF or
\* DOCX file, what the extraction library does
download_attachment_text(response, mime_type, extraction) ==
    IF "data" \notin DOMAIN response THEN KeyError(<<"d","a","t","a">>)
    ELSE Bind(urlsafe_b64decode(response.data),
              LAMBDA attachment_data : ExtractText(attachment_data, mime_type, extraction))

gmail_get_attachment_text_try(model, response, extraction) ==
    Truncated(download_attachment_text(response, model.mime_type, extraction), NoneDict)

(***************************************************************************)
(* base64.urlsafe_b64encode(raw_message.encode("utf-8")).decode("utf-8")   *)
(***************************************************************************)
\* the code point of a character that Chr gives
Ord(c) == CHOOSE cp \in (32..126) \cup {10, 233} : Chr(cp) = c

\* str.encode("utf-8") for code points below 2048
Utf8Encode(s) ==
    Cat([i \in 1..Len(s) |->
            IF Ord(s[i]) < 128 THEN <<Ord(s[i])>>
            ELSE <<192 + (Ord(s[i]) \div 64), 128 + (Ord(s[i]) % 64)>>])

\* the urlsafe alphabet: "-" and "_" in place of "+" and "/"
UrlsafeChar(v) ==
    IF v = 62 THEN "-" ELSE IF v = 63 THEN "_" ELSE B64Alphabet[v + 1]

RECURSIVE B64Encode(_)
\* three bytes to four characters, "=" padding the last group; the groups by
\* halves
B64Encode(b) ==
    IF b = <<>> THEN <<>>
    ELSE IF Len(b) > 3
    THEN B64Encode(SubSeq(b, 1, 3 * ((Len(b) \div 3 + 1) \div 2)))
         \o B64Encode(SubSeq(b, 3 * ((Len(b) \div 3 + 1) \div 2) + 1, Len(b)))
    ELSE LET n == Len(b)
             b1 == b[1]
             b2 == IF n >= 2 THEN b[2] ELSE 0
             b3 == IF n = 3 THEN b[3] ELSE 0
         IN  << UrlsafeChar(b1 \div 4),
                UrlsafeChar((b1 % 4) * 16 + (b2 \div 16)),
                IF n >= 2 THEN UrlsafeChar((b2 % 16) * 4 + (b3 \div 64)) ELSE "=",
                IF n = 3 THEN UrlsafeChar(b3 % 64) ELSE "=" >>

urlsafe_b64encode(s) == B64Encode(Utf8Encode(s))

(***************************************************************************)
(* The tools that change the mailbox.                                      *)
(***************************************************************************)
\* the first characters of the success messages, as the source file holds them
CheckMark == <<"U+00E2", "U+0153", "U+2026">>
Memo == <<"U+00F0", "U+0178", "U+201C">>

\* the message with no empty line between the header lines and the body
RawMessage_no_blank_line(model) ==
    Join(<<"\n">>,
         << <<"T","o",":"," ">> \o model.to, <<"S","u","b","j","e","c","t",":"," ">> \o model.subject >>
         \o (IF TruthyStr(Get(model, "cc", None)) THEN << <<"C","c",":"," ">> \o model.cc >> ELSE <<>>)
         \o (IF TruthyStr(Get(model, "bcc", None)) THEN << <<"B","c","c",":"," ">> \o model.bcc >> ELSE <<>>)
         \o << model.body >>)

\* "\n".join(message_lines) of gmail_send_message and gmail_create_draft
RawMessage(model) ==
    Join(<<"\n">>,
         << <<"T","o",":"," ">> \o model.to, <<"S","u","b","j","e","c","t",":"," ">> \o model.subject >>
         \o (IF TruthyStr(Get(model, "cc", None)) THEN << <<"C","c",":"," ">> \o model.cc >> ELSE <<>>)
         \o (IF TruthyStr(Get(model, "bcc", None)) THEN << <<"B","c","c",":"," ">> \o model.bcc >> ELSE <<>>)
         \o << <<>>, model.body >>)

\* the request body gmail_send_message posts
SendBody(model) ==
    [raw |-> urlsafe_b64encode(RawMessage(model))]
    @@ (IF TruthyStr(model.thread_id) THEN [threadId |-> model.thread_id] ELSE EmptyDict)

gmail_send_message_try(model, response) ==
    IF "id" \notin DOMAIN response THEN Failed(KeyError(<<"i","d">>))
    ELSE IF "threadId" \notin DOMAIN response THEN Failed(KeyError(<<"t","h","r","e","a","d","I","d">>))
    ELSE Whole(Returned(
             CheckMark \o <<" ","E","m","a","i","l"," ","s","e","n","t"," ","s","u","c","c","e",
                            "s","s","f","u","l","l","y","!","\n","\n">>
             \o <<"*","*","M","e","s","s","a","g","e"," ","I","D",":","*","*"," ">> \o response.id \o <<"\n">>
             \o <<"*","*","T","h","r","e","a","d"," ","I","D",":","*","*"," ">> \o response.threadId \o <<"\n">>
             \o <<"*","*","T","o",":","*","*"," ">> \o model.to \o <<"\n">>
             \o <<"*","*","S","u","b","j","e","c","t",":","*","*"," ">> \o model.subject \o <<"\n">>
             \o (IF TruthyStr(model.thread_id)
                 THEN <<"\n","(","S","e","n","t"," ","a","s"," ","r","e","p","l","y"," ","i","n",
                        " ","t","h","r","e","a","d"," ">> \o model.thread_id \o <<")">>
                 ELSE <<>>)))

\* the request body gmail_create_draft posts
DraftBody(model) == [message |-> [raw |-> urlsafe_b64encode(RawMessage(model))]]

gmail_create_draft_try(model, response) ==
    IF "id" \notin DOMAIN response THEN Failed(KeyError(<<"i","d">>))
    ELSE IF "message" \notin DOMAIN response THEN Failed(KeyError(<<"m","e","s","s","a","g","e">>))
    ELSE IF "id" \notin DOMAIN response.message THEN Failed(KeyError(<<"i","d">>))
    ELSE Whole(Returned(
             Memo \o <<" ","D","r","a","f","t"," ","c","r","e","a","t","e","d"," ","s","u","c",
                       "c","e","s","s","f","u","l","l","y","!","\n","\n">>
             \o <<"*","*","D","r","a","f","t"," ","I","D",":","*","*"," ">> \o response.id \o <<"\n">>
             \o <<"*","*","M","e","s","s","a","g","e"," ","I","D",":","*","*"," ">> \o response.message.id \o <<"\n">>
             \o <<"*","*","T","o",":","*","*"," ">> \o model.to \o <<"\n">>
             \o <<"*","*","S","u","b","j","e","c","t",":","*","*"," ">> \o model.subject \o <<"\n">>
             \o <<"\n","T","h","e"," ","d","r","a","f","t"," ","i","s"," ","s","a","v","e","d",
                  " ","a","n","d"," ","c","a","n"," ","b","e"," ","e","d","i","t","e","d"," ","o",
                  "r"," ","s","e","n","t"," ","l","a","t","e","r",".">>))

gmail_delete_draft_try(model, response) ==
    Whole(Returned(CheckMark \o <<" ","D","r","a","f","t"," ">> \o model.draft_id \o <<" ","d","e","l","e","t","e","d"," ","s","u","c","c","e","s","s","f","u","l","l","y",
            ".">>))

\* the "- **name** (ID: id)" lines of the labels of one type
LabelLines(labels, type) ==
    LET chosen == SelectSeq(labels, LAMBDA l : Get(l, "type", None) = type)
    IN  Collect([i \in 1..Len(chosen) |->
                    IF "name" \notin DOMAIN chosen[i] THEN KeyError(<<"n","a","m","e">>)
                    ELSE IF "id" \notin DOMAIN chosen[i] THEN KeyError(<<"i","d">>)
                    ELSE Returned(<<"-"," ","*","*">> \o chosen[i].name \o <<"*","*"," ","(","I","D",":"," ">>
                                  \o chosen[i].id \o <<")","\n">>)])

\* a label of the provider as json.dumps sees it
LabelJson(label) ==
    JObj(SelectSeq(<< <<<<"i","d">>, JOptStr(Get(label, "id", None))>>,
                      <<<<"n","a","m","e">>, JOptStr(Get(label, "name", None))>>,
                      <<<<"t","y","p","e">>, JOptStr(Get(label, "type", None))>> >>,
                   LAMBDA pair : pair[2] # JNull))

\* the Markdown list of the labels, system labels first
LabelsMarkdown(labels) ==
    Bind(LabelLines(labels, <<"s","y","s","t","e","m">>), LAMBDA system_labels :
    Bind(LabelLines(labels, <<"u","s","e","r">>), LAMBDA user_labels : Returned(
        <<"#"," ","G","m","a","i","l"," ","L","a","b","e","l","s","\n","\n","*","*","T","o","t",
          "a","l",":","*","*"," ">> \o IntToStr(Len(labels)) \o <<"\n","\n">>
        \o (IF system_labels # <<>>
            THEN <<"#","#"," ","S","y","s","t","e","m"," ","L","a","b","e","l","s","\n","\n">> \o Cat(system_labels) \o <<"\n">> ELSE <<>>)
        \o (IF user_labels # <<>>
            THEN <<"#","#"," ","U","s","e","r"," ","L","a","b","e","l","s","\n","\n">> \o Cat(user_labels) ELSE <<>>))))

gmail_list_labels_try(model, response) ==
    Whole(IF model.response_format = "markdown"
          THEN LabelsMarkdown(Get(response, "labels", <<>>))
          ELSE Returned(JsonDumps(
                   JObj(<< <<<<"l","a","b","e","l","s">>,
                             JList([i \in 1..Len(Get(response, "labels", <<>>)) |->
                                       LabelJson(response.labels[i])])>> >>), 0)))

\* the request body gmail_create_label posts
LabelBody(model) ==
    [name |-> model.name,
     labelListVisibility |-> model.label_list_visibility,
     messageListVisibility |-> model.message_list_visibility]

gmail_create_label_try(model, response) ==
    IF "name" \notin DOMAIN response THEN Failed(KeyError(<<"n","a","m","e">>))
    ELSE IF "id" \notin DOMAIN response THEN Failed(KeyError(<<"i","d">>))
    ELSE Whole(Returned(
             CheckMark \o <<" ","L","a","b","e","l"," ","c","r","e","a","t","e","d"," ","s","u",
                            "c","c","e","s","s","f","u","l","l","y","!","\n","\n">>
             \o <<"*","*","L","a","b","e","l"," ","N","a","m","e",":","*","*"," ">> \o response.name \o <<"\n">>
             \o <<"*","*","L","a","b","e","l"," ","I","D",":","*","*"," ">> \o response.id \o <<"\n">>))

\* whether an Optional[List[str]] is a non-empty list
TruthyList(x) == x # None /\ x # <<>>

\* the request body gmail_modify_message_labels posts
ModifyBody(model) ==
    (IF TruthyList(model.add_label_ids)
     THEN [addLabelIds |-> model.add_label_ids] ELSE EmptyDict)
    @@ (IF TruthyList(model.remove_label_ids)
        THEN [removeLabelIds |-> model.remove_label_ids] ELSE EmptyDict)

gmail_modify_message_labels_try(model, response) ==
    Whole(Returned(
        CheckMark \o <<" ","L","a","b","e","l","s"," ","m","o","d","i","f","i","e","d"," ","s",
                       "u","c","c","e","s","s","f","u","l","l","y","!","\n","\n">>
        \o <<"*","*","M","e","s","s","a","g","e"," ","I","D",":","*","*"," ">> \o model.message_id \o <<"\n">>
        \o <<"*","*","C","u","r","r","e","n","t"," ","L","a","b","e","l","s",":","*","*"," ">> \o Join(<<","," ">>, Get(response, "labelIds", <<>>))
        \o <<"\n">>))

\* the request body gmail_mark_message_read posts
MarkBody(model) ==
    IF model.mark_as_read
    THEN [removeLabelIds |-> <<<<"U","N","R","E","A","D">>>>] ELSE [addLabelIds |-> <<<<"U","N","R","E","A","D">>>>]

gmail_mark_message_read_try(model, response) ==
    Whole(Returned(
        CheckMark \o <<" ","M","e","s","s","a","g","e"," ">> \o model.message_id \o <<" ","m","a","r","k","e","d"," ","a","s"," ">>
        \o (IF model.mark_as_read THEN <<"r","e","a","d">> ELSE <<"u","n","r","e","a","d">>) \o <<".">>))

(***************************************************************************)
(* Spec: one invocation of one tool, from the validation of its arguments  *)
(* to the string it gives its caller, against a provider that answers each *)
(* request with a payload or a failure.                                    *)
(*   pc        "validate", "call" (the first request), "detail" (the       *)
(*             per-item requests of a list tool), "done"                   *)
(*   params    [args: the arguments as given, model: the validated input]  *)
(*   requests  the requests sent so far; prompts the credential prompts    *)
(*   listing   the provider's answer to the first request                  *)
(*   detailed  the answers to the per-item requests so far                 *)
(*   rendered  the text the tool built, before any truncation              *)
(*   returned  what the caller gets                                        *)
(***************************************************************************)
Tools ==
    { "gmail_search_messages", "gmail_summarize_emails", "gmail_get_message",
      "gmail_get_thread", "gmail_get_attachment_text", "gmail_send_message",
      "gmail_create_draft", "gmail_list_drafts", "gmail_delete_draft",
      "gmail_list_labels", "gmail_create_label", "gmail_modify_message_labels",
      "gmail_mark_message_read" }

\* ---- the provider's mailbox ----
MailboxIds == {1, 2, 3}
MsgId(i) == <<"m", Digit(i)>>
DraftId(i) == <<"d", Digit(i)>>

\* message 1 has every header but Cc, a text/plain part and an attachment;
\* message 2 has no Subject and a top-level body; message 3 has a snippet of
\* CHARACTER_LIMIT characters
Mailbox(i) ==
    CASE i = 1 ->
            [id |-> MsgId(1), threadId |-> <<"t","1">>, labelIds |-> <<<<"I","N","B","O","X">>>>,
             snippet |-> <<"H","i"," ","t","h","e","r","e">>, internalDate |-> <<"1","7","0","0","0","0","0","0","0","0","0","0","0">>,
             payload |-> [mimeType |-> <<"m","u","l","t","i","p","a","r","t","/","m","i","x","e",
                                         "d">>,
                          headers |-> HeaderList({"Subject", "From", "To", "Date"}),
                          parts |-> << [mimeType |-> TextPlain,
                                        body |-> [size |-> 2, data |-> DataHi]],
                                       PartNode(<<"a",".","p","d","f">>, <<>>) >>]]
      [] i = 2 ->
            [id |-> MsgId(2), threadId |-> <<"t","1">>,
             payload |-> [headers |-> HeaderList({"From"}),
                          body |-> [size |-> 3, data |-> DataTop]]]
      [] i = 3 ->
            [id |-> MsgId(3), threadId |-> <<"t","2">>,
             snippet |-> Rep("x", CHARACTER_LIMIT),
             payload |-> [headers |-> HeaderList({"Subject", "From"})]]

\* a message resource without its id, and one whose body is not base64
MsgIncomplete == [threadId |-> <<"t","1">>]
MsgBadBody ==
    [id |-> <<"m","9">>, payload |-> [headers |-> <<>>,
                                body |-> [size |-> 1, data |-> DataBadPadding]]]

\* the order in which the provider lists the mailbox
ProviderOrder == <<2, 1, 3>>

\* what a page of a listing can hold: at most MaxList mailbox entries, in the
\* provider's order
IdSeqs ==
    { [k \in 1..Cardinality(pick) |->
          ProviderOrder[CHOOSE p \in pick : Cardinality({ q \in pick : q <= p }) = k]] :
        pick \in { c \in SUBSET (1..Len(ProviderOrder)) : Cardinality(c) <= MaxList } }

\* an entry of messages.list or drafts.list
ListItem(key, i) ==
    IF key = "messages" THEN [id |-> MsgId(i), threadId |-> Mailbox(i).threadId]
    ELSE [id |-> DraftId(i), message |-> [id |-> MsgId(i), threadId |-> Mailbox(i).threadId]]

\* the answers to a list request: a page of entries with or without a cursor,
\* no entries at all, or an entry without id
ListReplies(key) ==
    { OkReply((key :> [k \in 1..Len(s) |-> ListItem(key, s[k])])
              @@ [resultSizeEstimate |-> 5] @@ cursor) :
        s \in IdSeqs \ {<<>>}, cursor \in {EmptyDict, [nextPageToken |-> Tok123]} }
    \cup { OkReply([resultSizeEstimate |-> 0]),
           OkReply((key :> <<>>) @@ [resultSizeEstimate |-> 0, nextPageToken |-> Tok123]),
           OkReply((key :> <<[threadId |-> <<"t","1">>]>>) @@ [resultSizeEstimate |-> 1]) }

\* a message whose body is n characters long
LongBodyMessage(id, n) ==
    [id |-> id, threadId |-> <<"t","1">>, snippet |-> <<"L","o","n","g">>,
     payload |-> [headers |-> HeaderList({"Subject"}),
                  body |-> [size |-> n, data |-> urlsafe_b64encode(Rep("b", n))]]]

\* the answers to the request for the message or draft of a list entry
BriefDetailReplies(key, id) ==
    IF key = "messages"
    THEN { OkReply(Mailbox(i)) : i \in { j \in MailboxIds : MsgId(j) = id } }
         \cup { OkReply(MsgIncomplete) }
    ELSE { OkReply([id |-> id, message |-> Mailbox(i)]) :
              i \in { j \in MailboxIds : DraftId(j) = id } }
         \cup { OkReply([id |-> id]) }

\* the same, and for the first message also answers with a long body
DetailReplies(key, id) ==
    BriefDetailReplies(key, id)
    \cup (IF key = "messages" /\ id = MsgId(1)
          THEN { OkReply(LongBodyMessage(id, n)) : n \in {1000, 1001} } ELSE {})

MessageReplies ==
    { OkReply(Mailbox(i)) : i \in MailboxIds }
    \cup { OkReply(MsgIncomplete), OkReply(MsgBadBody) }

ThreadReplies ==
    { OkReply([id |-> <<"t","1">>, messages |-> [k \in 1..Len(s) |-> Mailbox(s[k])]]) :
        s \in IdSeqs \ {<<>>} }
    \cup { OkReply([id |-> <<"t","1">>]),
           OkReply([id |-> <<"t","1">>, messages |-> <<>>]),
           OkReply([id |-> <<"t","1">>, messages |-> <<MsgIncomplete>>]),
           OkReply([id |-> <<"t","1">>, messages |-> <<MsgBadBody>>]) }

AttachmentReplies ==
    { OkReply([size |-> 2, data |-> DataHi]), OkReply([size |-> 0]),
      OkReply([size |-> 1, data |-> DataBadPadding]) }

SentReplies ==
    { OkReply([id |-> <<"m","7">>, threadId |-> <<"t","7">>, labelIds |-> <<<<"S","E","N","T">>>>]),
      OkReply([id |-> <<"m","7">>]), OkReply(EmptyDict) }

DraftCreatedReplies ==
    { OkReply([id |-> <<"d","7">>, message |-> [id |-> <<"m","7">>, threadId |-> <<"t","7">>]]),
      OkReply([id |-> <<"d","7">>, message |-> EmptyDict]),
      OkReply([id |-> <<"d","7">>]), OkReply(EmptyDict) }

LabelsReplies ==
    { OkReply([labels |-> << [id |-> <<"I","N","B","O","X">>, name |-> <<"I","N","B","O","X">>, type |-> <<"s","y","s","t","e","m">>],
                             [id |-> <<"L","a","b","e","l","_","1">>, name |-> <<"W","o","r","k">>, type |-> <<"u","s","e","r">>] >>]),
      OkReply([labels |-> << [id |-> <<"L","a","b","e","l","_","1">>, name |-> <<"W","o","r","k">>, type |-> <<"u","s","e","r">>],
                             [id |-> <<"L","a","b","e","l","_","2">>, name |-> <<"M","i","s","c">>] >>]),
      OkReply([labels |-> << [id |-> <<"L","a","b","e","l","_","3">>, type |-> <<"u","s","e","r">>] >>]),
      OkReply([labels |-> << [id |-> <<"L","a","b","e","l","_","4">>, name |-> Rep("w", CHARACTER_LIMIT),
                              type |-> <<"u","s","e","r">>] >>]),
      OkReply(EmptyDict) }

LabelCreatedReplies ==
    { OkReply([id |-> <<"L","a","b","e","l","_","7">>, name |-> <<"W","o","r","k">>]), OkReply([id |-> <<"L","a","b","e","l","_","7">>]),
      OkReply(EmptyDict) }

ModifiedReplies ==
    { OkReply([id |-> <<"m","1">>, threadId |-> <<"t","1">>, labelIds |-> <<<<"I","N","B","O","X">>, <<"S","T","A","R","R","E","D">>>>]),
      OkReply([id |-> <<"m","1">>, threadId |-> <<"t","1">>]) }

\* ---- the arguments a tool is invoked with ----
Unread == <<"i","s",":","u","n","r","e","a","d">>

Inputs(name) ==
    CASE name = "gmail_search_messages" ->
            { [query |-> Unread],
              [query |-> Unread, response_format |-> "json"],
              [query |-> Unread, page_token |-> Tok123],
              [query |-> Unread, response_format |-> "json", page_token |-> Tok123],
              [query |-> Unread, page_token |-> <<" ","t","o","k","1","2","3">>],
              [query |-> <<" ">> \o Rep("q", 500) \o <<" ">>, max_results |-> 100,
               response_format |-> "markdown", page_token |-> None],
              EmptyDict,
              [query |-> <<>>],
              [query |-> <<" "," ">>],
              [query |-> Rep("q", 501)],
              [query |-> Unread, max_results |-> 0],
              [query |-> Unread, max_results |-> 101],
              [query |-> Unread, response_format |-> "xml"],
              [query |-> Unread, verbose |-> TRUE] }
      [] name = "gmail_summarize_emails" ->
            { [query |-> Unread],
              [query |-> <<" ">> \o Rep("q", 500), max_results |-> 50, include_body |-> FALSE],
              EmptyDict,
              [query |-> <<>>],
              [query |-> Rep("q", 501)],
              [query |-> Unread, max_results |-> 0],
              [query |-> Unread, max_results |-> 51],
              [query |-> Unread, response_format |-> "json"] }
      [] name = "gmail_get_message" ->
            { [message_id |-> <<"m","1">>],
              [message_id |-> <<" ","m","1"," ">>, response_format |-> "json"],
              [message_id |-> <<"m","1">>, include_attachments_info |-> FALSE],
              EmptyDict,
              [message_id |-> <<>>],
              [message_id |-> <<" ">>],
              [message_id |-> <<"m","1">>, response_format |-> "xml"],
              [message_id |-> <<"m","1">>, verbose |-> TRUE] }
      [] name = "gmail_get_thread" ->
            { [thread_id |-> <<"t","1">>],
              [thread_id |-> <<"t","1">>, response_format |-> "json"],
              EmptyDict,
              [thread_id |-> <<>>],
              [thread_id |-> <<"t","1">>, response_format |-> "xml"],
              [thread_id |-> <<"t","1">>, max_results |-> 5] }
      [] name = "gmail_get_attachment_text" ->
            { [message_id |-> <<"m","1">>, attachment_id |-> <<"a","t","t">>, mime_type |-> m] :
                m \in {TextPlain, MimePdf, MimeDocx, MimeMsword, <<"i","m","a","g","e","/","p","n","g">>, <<>>} }
            \cup { [message_id |-> <<>>, attachment_id |-> <<"a","t","t">>, mime_type |-> TextPlain],
                   [message_id |-> <<"m","1">>, attachment_id |-> <<>>, mime_type |-> TextPlain],
                   [message_id |-> <<"m","1">>, attachment_id |-> <<"a","t","t">>],
                   [message_id |-> <<"m","1">>, attachment_id |-> <<"a","t","t">>, mime_type |-> TextPlain,
                    filename |-> <<"a",".","t","x","t">>] }
      [] name = "gmail_send_message" ->
            { [to |-> <<"b","o","b","@","x",".","i","o">>, subject |-> <<"H","i">>, body |-> <<"S","e","e"," ","y","o","u">>],
              [to |-> <<"b","o","b","@","x",".","i","o">>, subject |-> <<"H","i">>, body |-> <<"S","e","e"," ","y","o","u">>,
               cc |-> <<"c","y","@","x",".","i","o">>, bcc |-> <<"d","e","e","@","x",".","i","o">>, thread_id |-> <<"t","1">>],
              [to |-> <<"b","o","b","@","x",".","i","o">>, subject |-> Rep("s", 500), body |-> <<"c","a","f","U+00E9">>, cc |-> <<>>,
               thread_id |-> <<" ">>],
              [to |-> <<>>, subject |-> <<"H","i">>, body |-> <<"S","e","e"," ","y","o","u">>],
              [to |-> <<"b","o","b","@","x",".","i","o">>, subject |-> <<>>, body |-> <<"S","e","e"," ","y","o","u">>],
              [to |-> <<"b","o","b","@","x",".","i","o">>, subject |-> Rep("s", 501), body |-> <<"S","e","e"," ","y","o","u">>],
              [to |-> <<"b","o","b","@","x",".","i","o">>, subject |-> <<"H","i">>, body |-> <<>>],
              [to |-> <<"b","o","b","@","x",".","i","o">>, subject |-> <<"H","i">>],
              [to |-> <<"b","o","b","@","x",".","i","o">>, subject |-> <<"H","i">>, body |-> <<"S","e","e"," ","y","o","u">>,
               priority |-> <<"h","i","g","h">>] }
      [] name = "gmail_create_draft" ->
            { [to |-> <<"b","o","b","@","x",".","i","o">>, subject |-> <<"H","i">>, body |-> <<"S","e","e"," ","y","o","u">>],
              [to |-> <<"b","o","b","@","x",".","i","o">>, subject |-> <<"H","i">>, body |-> <<"S","e","e"," ","y","o","u">>, cc |-> <<"c","y","@","x",".","i","o">>],
              [to |-> <<>>, subject |-> <<"H","i">>, body |-> <<"S","e","e"," ","y","o","u">>],
              [to |-> <<"b","o","b","@","x",".","i","o">>, subject |-> Rep("s", 501), body |-> <<"S","e","e"," ","y","o","u">>],
              [to |-> <<"b","o","b","@","x",".","i","o">>, subject |-> <<"H","i">>, body |-> <<" ">>],
              [to |-> <<"b","o","b","@","x",".","i","o">>, subject |-> <<"H","i">>, body |-> <<"S","e","e"," ","y","o","u">>,
               bcc |-> <<"d","e","e","@","x",".","i","o">>] }
      [] name = "gmail_list_drafts" ->
            { EmptyDict,
              [response_format |-> "json"],
              [page_token |-> Tok123],
              [response_format |-> "json", page_token |-> Tok123],
              [page_token |-> <<>>],
              [max_results |-> 1, response_format |-> "markdown", page_token |-> None],
              [max_results |-> 0],
              [max_results |-> 101],
              [response_format |-> "xml"],
              [query |-> Unread] }
      [] name = "gmail_delete_draft" ->
            { [draft_id |-> <<"d","1">>], EmptyDict, [draft_id |-> <<>>],
              [draft_id |-> <<"d","1">>, force |-> TRUE] }
      [] name = "gmail_list_labels" ->
            { EmptyDict, [response_format |-> "markdown"], [response_format |-> "json"],
              [response_format |-> "xml"], [type |-> <<"u","s","e","r">>] }
      [] name = "gmail_create_label" ->
            { [name |-> <<"W","o","r","k">>],
              [name |-> Rep("n", 100), label_list_visibility |-> <<"l","a","b","e","l","H","i","d","e">>,
               message_list_visibility |-> <<"h","i","d","e">>],
              [name |-> <<"W","o","r","k">>, label_list_visibility |-> <<"l","a","b","e","l","S","h","o","w","I","f","U","n","r","e","a","d">>],
              EmptyDict,
              [name |-> <<>>],
              [name |-> Rep("n", 101)],
              [name |-> <<"W","o","r","k">>, label_list_visibility |-> <<"s","o","m","e","t","i","m","e","s">>],
              [name |-> <<"W","o","r","k">>, message_list_visibility |-> <<"n","e","v","e","r">>],
              [name |-> <<"W","o","r","k">>, color |-> <<"r","e","d">>] }
      [] name = "gmail_modify_message_labels" ->
            { [message_id |-> <<"m","1">>, add_label_ids |-> <<<<"S","T","A","R","R","E","D">>>>],
              [message_id |-> <<"m","1">>, remove_label_ids |-> <<<<"U","N","R","E","A","D">>>>],
              [message_id |-> <<"m","1">>, add_label_ids |-> <<<<"S","T","A","R","R","E","D">>>>,
               remove_label_ids |-> <<<<"U","N","R","E","A","D">>, <<"I","N","B","O","X">>>>],
              [message_id |-> <<"m","1">>],
              [message_id |-> <<"m","1">>, add_label_ids |-> <<>>, remove_label_ids |-> None],
              [message_id |-> <<>>, add_label_ids |-> <<<<"S","T","A","R","R","E","D">>>>],
              [add_label_ids |-> <<<<"S","T","A","R","R","E","D">>>>],
              [message_id |-> <<"m","1">>, labels |-> <<<<"S","T","A","R","R","E","D">>>>] }
      [] name = "gmail_mark_message_read" ->
            { [message_id |-> <<"m","1">>, mark_as_read |-> TRUE],
              [message_id |-> <<"m","1">>, mark_as_read |-> FALSE],
              [message_id |-> <<"m","1">>],
              [message_id |-> <<>>, mark_as_read |-> TRUE],
              [message_id |-> <<"m","1">>, mark_as_read |-> TRUE, notify |-> TRUE] }

Init ==
    /\ pc = "validate"
    /\ tool \in Tools
    /\ params \in { [args |-> a, model |-> NoneDict] : a \in Inputs(tool) }
    /\ requests = <<>>
    /\ prompts = 0
    /\ listing = NoneDict
    /\ detailed = <<>>
    /\ rendered = None
    /\ returned = NoReturn

\* the tool gives result to its caller, having built document
Return(result, document) ==
    /\ pc' = "done"
    /\ returned' = result
    /\ rendered' = document

\* a client that sends the request a second time when the first got no 2xx
\* answer
Called_retry(request, reply) ==
    /\ prompts' = prompts + 1
    /\ requests' = IF ~RequestSent(reply) THEN requests
                   ELSE IF reply.kind = "ok" THEN Append(requests, request)
                   ELSE Append(Append(requests, request), request)

\* one call of make_gmail_request answered by reply: a credential prompt and,
\* unless the prompt failed, the request
Called(request, reply) ==
    /\ prompts' = prompts + 1
    /\ requests' = IF RequestSent(reply) THEN Append(requests, request) ELSE requests

\* the framework builds the input model from the arguments before it calls the
\* tool; arguments that break a Field constraint never reach the tool
Validate ==
    /\ pc = "validate"
    /\ LET checked == InputModel(tool, params.args)
       IN  IF checked.valid
           THEN /\ params' = [params EXCEPT !.model = checked.model]
                /\ pc' = "call"
                /\ UNCHANGED <<rendered, returned>>
           ELSE /\ Return(Raised("pydantic.ValidationError", <<"v","a","l","i","d","a","t","i","o","n"," ","e","r","r","o","r">>), None)
                /\ UNCHANGED params
    /\ UNCHANGED <<tool, requests, prompts, listing, detailed>>

\* ---- the tools that list, then fetch every entry ----
\* the key of the entries in the provider's list
ListKey(name) == IF name = "gmail_list_drafts" THEN "drafts" ELSE "messages"

\* the collection a list tool reads
ListEndpoint(name) ==
    IF name = "gmail_list_drafts" THEN <<"/","u","s","e","r","s","/","m","e","/","d","r","a","f",
                                         "t","s">> ELSE <<"/","u","s","e","r","s","/","m","e","/","m","e","s","s","a","g","e","s">>

\* search_params / list_params
ListParams(name, model) ==
    (IF name = "gmail_list_drafts" THEN EmptyDict ELSE [q |-> model.query])
    @@ [maxResults |-> model.max_results]
    @@ (IF name # "gmail_summarize_emails" /\ TruthyStr(model.page_token)
        THEN [pageToken |-> model.page_token] ELSE EmptyDict)

\* what a list tool returns when the list has no entries
NothingFound(name) ==
    CASE name = "gmail_search_messages" ->
            <<"N","o"," ","m","e","s","s","a","g","e","s"," ","f","o","u","n","d"," ","m","a","t",
              "c","h","i","n","g"," ","t","h","e"," ","s","e","a","r","c","h"," ","q","u","e","r",
              "y",".">>
      [] name = "gmail_summarize_emails" ->
            <<"N","o"," ","m","e","s","s","a","g","e","s"," ","f","o","u","n","d"," ","m","a","t",
              "c","h","i","n","g"," ","t","h","e"," ","s","e","a","r","c","h"," ","q","u","e","r",
              "y","."," ","C","a","n","n","o","t"," ","g","e","n","e","r","a","t","e"," ","s","u",
              "m","m","a","r","y",".">>
      [] name = "gmail_list_drafts" -> <<"N","o"," ","d","r","a","f","t","s"," ","f","o","u","n",
                                         "d",".">>

\* the formatting that follows the last per-entry request
ListTry(name, model, response, details) ==
    CASE name = "gmail_search_messages" ->
            gmail_search_messages_try(model, response, details)
      [] name = "gmail_summarize_emails" ->
            gmail_summarize_emails_try(model, response, details)
      [] name = "gmail_list_drafts" -> gmail_list_drafts_try(model, response, details)

\* the except clauses, then the return to the caller
Finish(name, outcome) == Return(Catch(name, outcome.result), outcome.document)

\* a list tool that renders an empty list in JSON mode instead of returning
\* the fixed text
ListAnswer_json_renders(name, response) ==
    IF response.kind = "raised"
    THEN Finish(name, Failed(response)) /\ UNCHANGED listing
    ELSE /\ listing' = response.value
         /\ IF Get(response.value, ListKey(name), <<>>) = <<>>
            THEN IF params.model.response_format = "json"
                 THEN Finish(name, ListTry(name, params.model, response.value, <<>>))
                 ELSE Return(Returned(NothingFound(name)), None)
            ELSE /\ pc' = "detail"
                 /\ UNCHANGED <<rendered, returned>>

\* what a list tool does with the answer to its list request
ListAnswer(name, response) ==
    IF response.kind = "raised"
    THEN Finish(name, Failed(response)) /\ UNCHANGED listing
    ELSE /\ listing' = response.value
         /\ IF Get(response.value, ListKey(name), <<>>) = <<>>
            THEN Return(Returned(NothingFound(name)), None)
            ELSE /\ pc' = "detail"
                 /\ UNCHANGED <<rendered, returned>>

\* the list request and what the tool makes of the answer
ListCall(name) ==
    /\ pc = "call"
    /\ tool = name
    /\ \E reply \in ListReplies(ListKey(name)) \cup FailureReplies :
          /\ Called(Request("GET", ListEndpoint(name), ListParams(name, params.model),
                            NoneDict), reply)
          /\ ListAnswer(name, make_gmail_request(reply))
    /\ UNCHANGED <<tool, params, detailed>>

\* a list tool that renders the entries fetched so far when a per-entry
\* request fails
DetailAnswer_partial(name, response) ==
    IF response.kind = "raised"
    THEN Finish(name, ListTry(name, params.model, listing, detailed)) /\ UNCHANGED detailed
    ELSE /\ detailed' = Append(detailed, response.value)
         /\ IF Len(detailed) + 1 < Len(listing[ListKey(name)])
            THEN UNCHANGED <<pc, rendered, returned>>
            ELSE Finish(name, ListTry(name, params.model, listing,
                                      Append(detailed, response.value)))

\* what a list tool does with the answer to a per-entry request
DetailAnswer(name, response) ==
    IF response.kind = "raised"
    THEN Finish(name, Failed(response)) /\ UNCHANGED detailed
    ELSE /\ detailed' = Append(detailed, response.value)
         /\ IF Len(detailed) + 1 < Len(listing[ListKey(name)])
            THEN UNCHANGED <<pc, rendered, returned>>
            ELSE Finish(name, ListTry(name, params.model, listing,
                                      Append(detailed, response.value)))

\* a list tool that fetches the entries from the last one to the first
DetailCall_last_first(name) ==
    /\ pc = "detail"
    /\ tool = name
    /\ LET item == listing[ListKey(name)][Len(listing[ListKey(name)]) - Len(detailed)]
       IN  IF "id" \notin DOMAIN item
           THEN /\ Return(Catch(name, KeyError(<<"i","d">>)), None)
                /\ UNCHANGED <<requests, prompts, detailed>>
           ELSE \E reply \in DetailReplies(ListKey(name), item.id) \cup FailureReplies :
                   /\ Called(Request("GET", ListEndpoint(name) \o <<"/">> \o item.id,
                                     NoneDict, NoneDict), reply)
                   /\ DetailAnswer(name, make_gmail_request(reply))
    /\ UNCHANGED <<tool, params, listing>>

\* the request for the next entry; after the last one the tool formats,
\* truncates and returns
DetailCall(name) ==
    /\ pc = "detail"
    /\ tool = name
    /\ LET item == listing[ListKey(name)][Len(detailed) + 1]
       IN  IF "id" \notin DOMAIN item
           THEN /\ Return(Catch(name, KeyError(<<"i","d">>)), None)
                /\ UNCHANGED <<requests, prompts, detailed>>
           ELSE \E reply \in DetailReplies(ListKey(name), item.id) \cup FailureReplies :
                   /\ Called(Request("GET", ListEndpoint(name) \o <<"/">> \o item.id,
                                     NoneDict, NoneDict), reply)
                   /\ DetailAnswer(name, make_gmail_request(reply))
    /\ UNCHANGED <<tool, params, listing>>

gmail_search_messages ==
    ListCall("gmail_search_messages") \/ DetailCall("gmail_search_messages")

gmail_summarize_emails ==
    ListCall("gmail_summarize_emails") \/ DetailCall("gmail_summarize_emails")

gmail_list_drafts ==
    ListCall("gmail_list_drafts") \/ DetailCall("gmail_list_drafts")

\* what a tool of one request does with the answer
OneAnswer(name, response, outcome(_)) ==
    IF response.kind = "raised"
    THEN Finish(name, Failed(response)) /\ UNCHANGED listing
    ELSE Finish(name, outcome(response.value)) /\ listing' = response.value

\* ---- the tools of one request ----
\* one request answered by one of replies, then the try block outcome(response)
OneCall(name, request, replies, outcome(_)) ==
    /\ pc = "call"
    /\ tool = name
    /\ \E reply \in replies \cup FailureReplies :
          /\ Called(request, reply)
          /\ OneAnswer(name, make_gmail_request(reply), outcome)
    /\ UNCHANGED <<tool, params, detailed>>

gmail_get_message ==
    OneCall("gmail_get_message",
            Request("GET", <<"/","u","s","e","r","s","/","m","e","/","m","e","s","s","a","g","e",
                             "s","/">> \o params.model.message_id,
                    NoneDict, NoneDict),
            MessageReplies,
            LAMBDA message : gmail_get_message_try(params.model, message))

gmail_get_thread ==
    OneCall("gmail_get_thread",
            Request("GET", <<"/","u","s","e","r","s","/","m","e","/","t","h","r","e","a","d","s",
                             "/">> \o params.model.thread_id,
                    NoneDict, NoneDict),
            ThreadReplies,
            LAMBDA thread : gmail_get_thread_try(params.model, thread))

gmail_get_attachment_text ==
    \E extraction \in Extractions :
        OneCall("gmail_get_attachment_text",
                Request("GET", <<"/","u","s","e","r","s","/","m","e","/","m","e","s","s","a","g",
                                 "e","s","/">> \o params.model.message_id
                               \o <<"/","a","t","t","a","c","h","m","e","n","t","s","/">> \o params.model.attachment_id,
                        NoneDict, NoneDict),
                AttachmentReplies,
                LAMBDA response :
                    gmail_get_attachment_text_try(params.model, response, extraction))

gmail_send_message ==
    OneCall("gmail_send_message",
            Request("POST", <<"/","u","s","e","r","s","/","m","e","/","m","e","s","s","a","g","e",
                              "s","/","s","e","n","d">>, NoneDict, SendBody(params.model)),
            SentReplies,
            LAMBDA response : gmail_send_message_try(params.model, response))

gmail_create_draft ==
    OneCall("gmail_create_draft",
            Request("POST", <<"/","u","s","e","r","s","/","m","e","/","d","r","a","f","t","s">>, NoneDict, DraftBody(params.model)),
            DraftCreatedReplies,
            LAMBDA response : gmail_create_draft_try(params.model, response))

gmail_delete_draft ==
    OneCall("gmail_delete_draft",
            Request("DELETE", <<"/","u","s","e","r","s","/","m","e","/","d","r","a","f","t","s",
                                "/">> \o params.model.draft_id,
                    NoneDict, NoneDict),
            { OkReply(EmptyDict) },
            LAMBDA response : gmail_delete_draft_try(params.model, response))

\* a label listing that asks with POST
gmail_list_labels_post ==
    OneCall("gmail_list_labels",
            Request("POST", <<"/","u","s","e","r","s","/","m","e","/","l","a","b","e","l","s">>, NoneDict, NoneDict),
            LabelsReplies,
            LAMBDA response : gmail_list_labels_try(params.model, response))

gmail_list_labels ==
    OneCall("gmail_list_labels",
            Request("GET", <<"/","u","s","e","r","s","/","m","e","/","l","a","b","e","l","s">>, NoneDict, NoneDict),
            LabelsReplies,
            LAMBDA response : gmail_list_labels_try(params.model, response))

gmail_create_label ==
    OneCall("gmail_create_label",
            Request("POST", <<"/","u","s","e","r","s","/","m","e","/","l","a","b","e","l","s">>, NoneDict, LabelBody(params.model)),
            LabelCreatedReplies,
            LAMBDA response : gmail_create_label_try(params.model, response))

gmail_modify_message_labels ==
    OneCall("gmail_modify_message_labels",
            Request("POST", <<"/","u","s","e","r","s","/","m","e","/","m","e","s","s","a","g","e",
                              "s","/">> \o params.model.message_id \o <<"/","m","o","d","i","f","y">>,
                    NoneDict, ModifyBody(params.model)),
            ModifiedReplies,
            LAMBDA response : gmail_modify_message_labels_try(params.model, response))

gmail_mark_message_read ==
    OneCall("gmail_mark_message_read",
            Request("POST", <<"/","u","s","e","r","s","/","m","e","/","m","e","s","s","a","g","e",
                              "s","/">> \o params.model.message_id \o <<"/","m","o","d","i","f","y">>,
                    NoneDict, MarkBody(params.model)),
            ModifiedReplies,
            LAMBDA response : gmail_mark_message_read_try(params.model, response))

Next ==
    \/ Validate
    \/ gmail_search_messages
    \/ gmail_summarize_emails
    \/ gmail_get_message
    \/ gmail_get_thread
    \/ gmail_get_attachment_text
    \/ gmail_send_message
    \/ gmail_create_draft
    \/ gmail_list_drafts
    \/ gmail_delete_draft
    \/ gmail_list_labels
    \/ gmail_create_label
    \/ gmail_modify_message_labels
    \/ gmail_mark_message_read

Spec == Init /\ [][Next]_vars

(***************************************************************************)
(* Properties of Spec.                                                     *)
(***************************************************************************)
\* s begins with t
StartsWith(s, t) == Len(s) >= Len(t) /\ \A j \in 1..Len(t) : s[j] = t[j]

\* the places of doc where marker begins, in increasing order
Occurrences(doc, marker) ==
    LET at == { p \in 1..(Len(doc) - Len(marker) + 1) :
                  \A j \in 1..Len(marker) : doc[p + j - 1] = marker[j] }
    IN  [k \in 1..Cardinality(at) |->
            CHOOSE p \in at : Cardinality({ q \in at : q <= p }) = k]

\* what doc shows from place p on, up to the end of the line
RestOfLine(doc, p) ==
    LET ends == { i \in p..Len(doc) : doc[i] = "\n" }
    IN  IF ends = {} THEN SubSeq(doc, p, Len(doc))
        ELSE SubSeq(doc, p, (CHOOSE i \in ends : \A j \in ends : i <= j) - 1)

\* what doc shows after each occurrence of marker, up to the end of the line
ShownAfterEach(doc, marker) ==
    LET at == Occurrences(doc, marker)
    IN  [k \in 1..Len(at) |-> RestOfLine(doc, at[k] + Len(marker))]

\* the invocation got past validation and into the tool
Invoked == params.model # NoneDict

\* C3: an invoked tool never raises to its caller, whatever the provider
\* answers: until it ends it has raised nothing and has a next step, and it ends
\* by returning a string, which is the text it rendered (whole, or cut by
\* truncate_response to its first CHARACTER_LIMIT characters and an annotation)
\* or, when it rendered none, a diagnostic.
C3_AlwaysReturnsString ==
    Invoked =>
        /\ pc # "done" => returned = NoReturn
        /\ pc = "done" =>
              /\ returned.kind = "value"
              /\ IF rendered # None
                 THEN \/ returned.value = rendered
                      \/ /\ Len(rendered) > 25000
                         /\ SubSeq(returned.value, 1, 25000) = SubSeq(rendered, 1, 25000)
                 ELSE \/ StartsWith(returned.value, <<"E","r","r","o","r"," ">>)
                      \/ StartsWith(returned.value, <<"U","n","e","x","p","e","c","t","e","d"," ","e","r","r","o","r",":",
                              " ">>)
                      \/ StartsWith(returned.value, <<"N","o"," ">>)

\* a search whose second request met a transport failure ended with the
\* diagnostic string
C3_Witness ==
    /\ tool = "gmail_search_messages" /\ pc = "done"
    /\ Len(requests) = 2
    /\ returned = Returned(<<"U","n","e","x","p","e","c","t","e","d"," ","e","r","r","o","r",":",
                             " ","A","l","l"," ","c","o","n","n","e","c","t","i","o","n"," ","a",
                             "t","t","e","m","p","t","s"," ","f","a","i","l","e","d">>)

\* ---- the declared constraints, field by field ----
\* the str fields with a length bound: <<field, min_length, max_length>>, a
\* max_length of -1 for none
LengthBounds(name) ==
    CASE name \in {"gmail_search_messages", "gmail_summarize_emails"} ->
            { <<"query", 1, 500>> }
      [] name = "gmail_get_message" -> { <<"message_id", 1, -1>> }
      [] name = "gmail_get_thread" -> { <<"thread_id", 1, -1>> }
      [] name = "gmail_get_attachment_text" ->
            { <<"message_id", 1, -1>>, <<"attachment_id", 1, -1>> }
      [] name \in {"gmail_send_message", "gmail_create_draft"} ->
            { <<"to", 1, -1>>, <<"subject", 1, 500>>, <<"body", 1, -1>> }
      [] name = "gmail_delete_draft" -> { <<"draft_id", 1, -1>> }
      [] name = "gmail_create_label" -> { <<"name", 1, 100>> }
      [] name \in {"gmail_modify_message_labels", "gmail_mark_message_read"} ->
            { <<"message_id", 1, -1>> }
      [] OTHER -> {}

\* the range of max_results
MaxResultsRange(name) ==
    CASE name \in {"gmail_search_messages", "gmail_list_drafts"} -> 1..100
      [] name = "gmail_summarize_emails" -> 1..50

\* the fields with an enumerated type: <<field, values>>
EnumFields(name) ==
    CASE name \in {"gmail_search_messages", "gmail_get_message", "gmail_get_thread",
                   "gmail_list_drafts", "gmail_list_labels"} ->
            { <<"response_format", {"markdown", "json"}>> }
      [] name = "gmail_create_label" ->
            { <<"label_list_visibility", {<<"l","a","b","e","l","S","h","o","w">>, <<"l","a","b","e","l","S","h","o","w","I","f","U","n","r","e","a","d">>, <<"l","a","b","e","l","H","i","d","e">>}>>,
              <<"message_list_visibility", {<<"s","h","o","w">>, <<"h","i","d","e">>}>> }
      [] OTHER -> {}

\* the fields each input model declares
DeclaredFields(name) ==
    CASE name = "gmail_search_messages" ->
            {"query", "max_results", "page_token", "response_format"}
      [] name = "gmail_summarize_emails" -> {"query", "max_results", "include_body"}
      [] name = "gmail_get_message" ->
            {"message_id", "response_format", "include_attachments_info"}
      [] name = "gmail_get_thread" -> {"thread_id", "response_format"}
      [] name = "gmail_get_attachment_text" -> {"message_id", "attachment_id", "mime_type"}
      [] name = "gmail_send_message" -> {"to", "subject", "body", "cc", "bcc", "thread_id"}
      [] name = "gmail_create_draft" -> {"to", "subject", "body", "cc"}
      [] name = "gmail_list_drafts" -> {"max_results", "page_token", "response_format"}
      [] name = "gmail_delete_draft" -> {"draft_id"}
      [] name = "gmail_list_labels" -> {"response_format"}
      [] name = "gmail_create_label" ->
            {"name", "label_list_visibility", "message_list_visibility"}
      [] name = "gmail_modify_message_labels" ->
            {"message_id", "add_label_ids", "remove_label_ids"}
      [] name = "gmail_mark_message_read" -> {"message_id", "mark_as_read"}

\* the arguments break a declared constraint: a required string is empty, a
\* string is longer than its max_length (lengths are those of the value without
\* its surrounding whitespace, which is what the model measures), max_results
\* is out of range, an enumerated field has an unknown value, or there is a
\* field the model does not declare
ViolatesConstraint(name, args) ==
    \/ \E b \in LengthBounds(name) :
          /\ b[1] \in DOMAIN args
          /\ \/ Len(Strip(args[b[1]])) < b[2]
             \/ b[3] >= 0 /\ Len(Strip(args[b[1]])) > b[3]
    \/ /\ "max_results" \in DOMAIN args \cap DeclaredFields(name)
       /\ args.max_results \notin MaxResultsRange(name)
    \/ \E e \in EnumFields(name) : e[1] \in DOMAIN args /\ args[e[1]] \notin e[2]
    \/ ~(DOMAIN args \subseteq DeclaredFields(name))

\* C4: arguments that break a declared constraint are rejected with a
\* validation failure, and at no time is a credential asked for or a request
\* sent on their behalf.
C4_RejectedBeforeAnyCall ==
    ViolatesConstraint(tool, params.args) =>
        /\ requests = <<>>
        /\ prompts = 0
        /\ ~Invoked
        /\ pc \in {"validate", "done"}
        /\ pc = "done" => returned.kind = "raised" /\ returned.cls = "pydantic.ValidationError"

\* a search asking for 101 results has been rejected
C4_Witness ==
    /\ tool = "gmail_search_messages" /\ pc = "done"
    /\ "max_results" \in DOMAIN params.args
    /\ params.args.max_results = 101
    /\ returned.kind = "raised"
    /\ requests = <<>>

\* ---- what the documents show ----
\* the tool rendered a Markdown document (gmail_summarize_emails has no other)
Markdown ==
    "response_format" \in DOMAIN params.model => params.model.response_format = "markdown"

\* the messages whose subject the rendered document shows, in order
ShownMessages ==
    CASE tool \in {"gmail_search_messages", "gmail_summarize_emails"} -> detailed
      [] tool = "gmail_list_drafts" -> [k \in 1..Len(detailed) |-> detailed[k].message]
      [] tool = "gmail_get_message" -> <<listing>>
      [] tool = "gmail_get_thread" ->
            IF "messages" \notin DOMAIN listing THEN <<>>
            ELSE IF Markdown THEN <<listing.messages[1]>> ELSE listing.messages

\* what precedes a subject in the rendered document
SubjectMarker ==
    IF ~Markdown THEN <<"\"","s","u","b","j","e","c","t","\"",":"," ">>
    ELSE CASE tool = "gmail_get_message" -> <<"#"," ","E","m","a","i","l",":"," ">>
           [] tool \in {"gmail_search_messages", "gmail_list_drafts"} -> <<"\n","#","#"," ">>
           [] tool = "gmail_summarize_emails" -> <<"\n","*","*","S","u","b","j","e","c","t",":","*","*"," ">>
           [] tool = "gmail_get_thread" -> <<"#"," ","T","h","r","e","a","d",":"," ">>

\* the line that shows subject as the subject of the k-th message
SubjectLine(k, subject) ==
    IF ~Markdown THEN <<"\"">> \o subject \o <<"\"",",">>
    ELSE IF tool \in {"gmail_search_messages", "gmail_list_drafts"}
    THEN IntToStr(k) \o <<"."," ">> \o subject
    ELSE subject

\* the message has no Subject header
NoSubjectHeader(msg) ==
    \/ "payload" \notin DOMAIN msg
    \/ "headers" \notin DOMAIN msg.payload
    \/ \A i \in 1..Len(msg.payload.headers) : msg.payload.headers[i].name # "Subject"

\* C7: in every document that shows subjects (a single message, search
\* entries, summarization entries, a thread title, draft entries; Markdown and
\* JSON) there is one subject per shown message, and the subject shown for a
\* message without Subject header is the literal (No Subject).
C7_MissingSubjectDefault ==
    (/\ pc = "done"
     /\ tool \in {"gmail_get_message", "gmail_search_messages", "gmail_summarize_emails",
                  "gmail_get_thread", "gmail_list_drafts"}
     /\ rendered # None)
    => /\ Len(Occurrences(rendered, SubjectMarker)) = Len(ShownMessages)
       /\ \A k \in 1..Len(ShownMessages) :
             NoSubjectHeader(ShownMessages[k]) =>
                 ShownAfterEach(rendered, SubjectMarker)[k] = SubjectLine(k, <<"(","N","o"," ","S","u","b","j","e","c","t",")">>)

\* a search listed the message that has no Subject header first
C7_Witness ==
    /\ pc = "done" /\ tool = "gmail_search_messages" /\ Markdown
    /\ rendered # None
    /\ Len(detailed) = 2
    /\ NoSubjectHeader(detailed[1]) /\ ~NoSubjectHeader(detailed[2])
    /\ Len(rendered) < 1000
    /\ ShownAfterEach(rendered, <<"\n","#","#"," ">>)[1] = <<"1","."," ","(","N","o"," ","S","u","b","j","e","c","t",")">>

\* C9: the Markdown document of a search whose list response has N >= 1
\* messages, all fetched, has exactly N numbered entries 1..N, whose message
\* ids are those of the list response in its order, and it has the pagination
\* hint, naming the cursor, if and only if the list response has a
\* nextPageToken.
C9_SearchEntriesAndHint ==
    (/\ pc = "done" /\ tool = "gmail_search_messages" /\ Markdown
     /\ rendered # None
     /\ "messages" \in DOMAIN listing
     /\ Len(detailed) = Len(listing.messages))
    => /\ Len(Occurrences(rendered, <<"\n","#","#"," ">>)) = Len(listing.messages)
       /\ Len(Occurrences(rendered, <<"\n","-"," ","*","*","M","e","s","s","a","g","e"," ","I",
                                      "D",":","*","*"," ">>)) = Len(listing.messages)
       /\ \A k \in 1..Len(listing.messages) :
             /\ StartsWith(ShownAfterEach(rendered, <<"\n","#","#"," ">>)[k], IntToStr(k) \o <<"."," ">>)
             /\ ShownAfterEach(rendered, <<"\n","-"," ","*","*","M","e","s","s","a","g","e"," ","I","D",":","*","*"," ">>)[k] = listing.messages[k].id
       /\ IF "nextPageToken" \in DOMAIN listing
          THEN ShownAfterEach(rendered, <<"\n","*","*","M","o","r","e"," ","r","e","s","u","l",
                                          "t","s"," ","a","v","a","i","l","a","b","l","e",".","*",
                                          "*"," ">>)
                  = << <<"U","s","e"," ","p","a","g","e","_","t","o","k","e","n","=","'">> \o listing.nextPageToken \o <<"'"," ","t","o"," ","g","e","t"," ","t","h","e"," ","n","e","x","t"," ",
                          "p","a","g","e",".">> >>
          ELSE /\ Occurrences(rendered, <<"M","o","r","e"," ","r","e","s","u","l","t","s"," ","a",
                                          "v","a","i","l","a","b","l","e">>) = <<>>
               /\ Occurrences(rendered, <<"p","a","g","e","_","t","o","k","e","n">>) = <<>>

\* a search listed two messages and a cursor
C9_Witness ==
    /\ pc = "done" /\ tool = "gmail_search_messages" /\ Markdown
    /\ rendered # None
    /\ Len(listing.messages) = 2
    /\ "nextPageToken" \in DOMAIN listing
    /\ listing.nextPageToken = <<"t","o","k","1","2","3">>
    /\ Len(rendered) < 1000
    /\ Len(Occurrences(rendered, <<"\n","#","#"," ">>)) = 2

\* C10: when the list response of gmail_search_messages or gmail_list_drafts
\* has a next-page cursor, the string returned to the caller contains the
\* cursor value.
C10_CursorReturned ==
    (/\ pc = "done" /\ tool \in {"gmail_search_messages", "gmail_list_drafts"}
     /\ rendered # None
     /\ "nextPageToken" \in DOMAIN listing)
    => Occurrences(returned.value, listing.nextPageToken) # <<>>

\* ---- base64url, read back ----
\* the URL-safe alphabet of RFC 4648
UrlAlphabet == <<"A","B","C","D","E","F","G","H","I","J","K","L","M","N","O","P","Q","R","S","T",
                 "U","V","W","X","Y","Z","a","b","c","d","e","f","g","h","i","j","k","l","m","n",
                 "o","p","q","r","s","t","u","v","w","x","y","z","0","1","2","3","4","5","6","7",
                 "8","9","-","_">>

\* the six bits a character of a base64url text stands for
Sextet(c) == IF c = "=" THEN 0 ELSE (CHOOSE v \in 1..64 : UrlAlphabet[v] = c) - 1

\* text is base64url: groups of four characters of the alphabet, "=" only as
\* the last or the last two characters
IsBase64Url(text) ==
    /\ Len(text) % 4 = 0
    /\ \A i \in 1..Len(text) :
          \/ \E v \in 1..64 : UrlAlphabet[v] = text[i]
          \/ text[i] = "=" /\ i >= Len(text) - 1 /\ text[Len(text)] = "="

\* the bytes a base64url text stands for
Base64UrlBytes(text) ==
    LET pads == IF text = <<>> \/ text[Len(text)] # "=" THEN 0
                ELSE IF text[Len(text) - 1] = "=" THEN 2 ELSE 1
        word(g) == Sextet(text[4 * g + 1]) * 262144 + Sextet(text[4 * g + 2]) * 4096
                   + Sextet(text[4 * g + 3]) * 64 + Sextet(text[4 * g + 4])
    IN  [j \in 1..(3 * (Len(text) \div 4) - pads) |->
            CASE (j - 1) % 3 = 0 -> word((j - 1) \div 3) \div 65536
              [] (j - 1) % 3 = 1 -> (word((j - 1) \div 3) \div 256) % 256
              [] (j - 1) % 3 = 2 -> word((j - 1) \div 3) % 256]

\* the UTF-8 bytes of a text of code points below 2048
TextBytes(text) ==
    Cat([i \in 1..Len(text) |->
            IF Ord(text[i]) < 128 THEN <<Ord(text[i])>>
            ELSE <<192 + (Ord(text[i]) \div 64), 128 + (Ord(text[i]) % 64)>>])

\* a value was given for an optional field
Given(x) == x # None /\ x # <<>>

\* the lines of the message gmail_send_message is to send, joined by newline
SendLines(m) ==
    <<"T","o",":"," ">> \o m.to \o <<"\n","S","u","b","j","e","c","t",":"," ">> \o m.subject
    \o (IF Given(m.cc) THEN <<"\n","C","c",":"," ">> \o m.cc ELSE <<>>)
    \o (IF Given(m.bcc) THEN <<"\n","B","c","c",":"," ">> \o m.bcc ELSE <<>>)
    \o <<"\n","\n">> \o m.body

\* C11: gmail_send_message sends one request; its raw field is the base64url
\* encoding of the lines To, Subject, Cc if given, Bcc if given, an empty line
\* and the body, joined by newline, and its payload has threadId, equal to
\* thread_id, if and only if a thread_id was given.
C11_OutboundMessage ==
    (tool = "gmail_send_message" /\ requests # <<>>)
    => /\ Len(requests) = 1
       /\ requests[1].method = "POST"
       /\ DOMAIN requests[1].json_data
             = {"raw"} \cup (IF Given(params.model.thread_id) THEN {"threadId"} ELSE {})
       /\ Given(params.model.thread_id)
             => requests[1].json_data.threadId = params.model.thread_id
       /\ IsBase64Url(requests[1].json_data.raw)
       /\ Base64UrlBytes(requests[1].json_data.raw) = TextBytes(SendLines(params.model))

\* a reply with Cc and Bcc was sent into thread t1
C11_Witness ==
    /\ tool = "gmail_send_message" /\ pc = "done" /\ Invoked
    /\ Given(params.model.cc) /\ Given(params.model.bcc)
    /\ Len(requests) = 1
    /\ requests[1].json_data.threadId = <<"t","1">>
    /\ returned.kind = "value"

\* the last characters of s are t
EndsWith(s, t) ==
    Len(s) >= Len(t) /\ \A j \in 1..Len(t) : s[Len(s) - Len(t) + j] = t[j]

\* the attachment bytes have been downloaded: the one request was answered
\* with base64url data
AttachmentDownloaded ==
    /\ tool = "gmail_get_attachment_text" /\ pc = "done" /\ Invoked
    /\ Len(requests) = 1
    /\ "data" \in DOMAIN listing
    /\ IsBase64Url(listing.data)

\* C12: once the attachment bytes are downloaded, gmail_get_attachment_text
\* returns as its result, and not as an error diagnostic, the decoded text for
\* text/plain, the extracted text or a bracketed placeholder for the PDF and
\* DOCX types, and exactly [Unsupported file type: <mime_type>] for any other
\* type.
C12_ExtractionDegrades ==
    AttachmentDownloaded =>
        /\ returned.kind = "value"
        /\ returned.value = rendered
        /\ ~StartsWith(returned.value, <<"E","r","r","o","r"," ","d","o","w","n","l","o","a","d",
                                         "i","n","g"," ","a","t","t","a","c","h","m","e","n","t">>)
        /\ ~StartsWith(returned.value, <<"U","n","e","x","p","e","c","t","e","d"," ","e","r","r",
                                         "o","r">>)
        /\ CASE params.model.mime_type = <<"t","e","x","t","/","p","l","a","i","n">> ->
                   TextBytes(returned.value) = Base64UrlBytes(listing.data)
             [] params.model.mime_type = <<"a","p","p","l","i","c","a","t","i","o","n","/","p","d","f">> ->
                   \/ returned.value = <<"[","P","D","F"," ","t","e","x","t"," ","e","x","t","r",
                                         "a","c","t","i","o","n"," ","r","e","q","u","i","r","e",
                                         "s"," ","P","y","P","D","F","2"," ","l","i","b","r","a",
                                         "r","y","]">>
                   \/ /\ StartsWith(returned.value, <<"[","E","r","r","o","r"," ","e","x","t","r","a","c","t","i","n","g",
                           " ","P","D","F"," ","t","e","x","t",":"," ">>)
                      /\ EndsWith(returned.value, <<"]">>)
                   \/ returned.value[1] # "[" /\ EndsWith(returned.value, <<"\n">>)
             [] params.model.mime_type
                    \in {<<"a","p","p","l","i","c","a","t","i","o","n","/","v","n","d",".","o",
                           "p","e","n","x","m","l","f","o","r","m","a","t","s","-","o","f","f",
                           "i","c","e","d","o","c","u","m","e","n","t",".","w","o","r","d","p",
                           "r","o","c","e","s","s","i","n","g","m","l",".","d","o","c","u","m",
                           "e","n","t">>,
                         <<"a","p","p","l","i","c","a","t","i","o","n","/","m","s","w","o","r","d">>} ->
                   \/ returned.value = <<"[","D","O","C","X"," ","t","e","x","t"," ","e","x","t",
                                         "r","a","c","t","i","o","n"," ","r","e","q","u","i","r",
                                         "e","s"," ","p","y","t","h","o","n","-","d","o","c","x",
                                         " ","l","i","b","r","a","r","y","]">>
                   \/ /\ StartsWith(returned.value, <<"[","E","r","r","o","r"," ","e","x","t","r","a","c","t","i","n","g",
                           " ","D","O","C","X"," ","t","e","x","t",":"," ">>)
                      /\ EndsWith(returned.value, <<"]">>)
                   \/ returned.value[1] # "["
             [] OTHER ->
                   returned.value
                       = <<"[","U","n","s","u","p","p","o","r","t","e","d"," ","f","i","l","e",
                           " ","t","y","p","e",":"," ">> \o params.model.mime_type \o <<"]">>

\* an image was downloaded and the placeholder returned
C12_Witness ==
    /\ AttachmentDownloaded
    /\ params.model.mime_type = <<"i","m","a","g","e","/","p","n","g">>
    /\ returned = Returned(<<"[","U","n","s","u","p","p","o","r","t","e","d"," ","f","i","l","e",
                             " ","t","y","p","e",":"," ","i","m","a","g","e","/","p","n","g","]">>)

\* ---- the tools that list, then fetch ----
ListTools == {"gmail_search_messages", "gmail_summarize_emails", "gmail_list_drafts"}

\* the entries of the list response
Listed == IF tool = "gmail_list_drafts" THEN listing.drafts ELSE listing.messages

\* the collection the entries are fetched from
Collection == IF tool = "gmail_list_drafts" THEN <<"/","u","s","e","r","s","/","m","e","/","d","r","a","f","t","s">> ELSE <<"/","u","s","e","r","s","/","m","e","/","m","e","s","s","a","g","e","s">>

\* the tool ended before it had fetched every entry of a list that has some
FetchFailed ==
    /\ tool \in ListTools /\ pc = "done" /\ Invoked
    /\ (IF tool = "gmail_list_drafts" THEN "drafts" ELSE "messages") \in DOMAIN listing
    /\ Len(detailed) < Len(Listed)

\* the texts of the failures a request can meet
FailureTexts ==
    { <<"G","m","a","i","l"," ","A","P","I"," ","e","r","r","o","r",":"," ","4","0","4"," ","-",
        " ","N","o","t"," ","F","o","u","n","d">>, <<"G","m","a","i","l"," ","A","P","I"," ","e","r","r","o","r",":"," ","4","0","1">>,
      <<"G","m","a","i","l"," ","A","P","I"," ","e","r","r","o","r",":"," ","5","0","0"," ","-",
        " ","U","n","k","n","o","w","n"," ","e","r","r","o","r">>, <<"A","l","l"," ","c","o","n","n","e","c","t","i","o","n"," ","a","t","t","e","m","p",
              "t","s"," ","f","a","i","l","e","d">>,
      <<"E","x","p","e","c","t","i","n","g"," ","v","a","l","u","e",":"," ","l","i","n","e"," ",
        "1"," ","c","o","l","u","m","n"," ","1"," ","(","c","h","a","r"," ","0",")">>, <<"c","r","e","d","e","n","t","i","a","l"," ","p","r","o","m","p","t"," ","f","a","i",
              "l","e","d">>, <<"'","i","d","'">> }

\* C13: when the fetch of entry K of N fails, the requests made are the list
\* request and the fetches of entries 1..K in order, nothing is fetched for
\* entries K+1..N, and the returned string is the diagnostic of the failure and
\* has nothing of entries 1..K-1 in it.
C13_NoPartialSuccess ==
    FetchFailed =>
        /\ Len(requests) \in {Len(detailed) + 1, Len(detailed) + 2}
        /\ prompts <= Len(detailed) + 2
        /\ \A k \in 2..Len(requests) :
              /\ requests[k].method = "GET"
              /\ requests[k].endpoint = Collection \o <<"/">> \o Listed[k - 1].id
        /\ rendered = None
        /\ returned.kind = "value"
        /\ \E text \in FailureTexts :
              \/ /\ StartsWith(returned.value, <<"E","r","r","o","r"," ">>)
                 /\ Occurrences(returned.value, <<":"," ">> \o text) # <<>>
              \/ returned.value = <<"U","n","e","x","p","e","c","t","e","d"," ","e","r","r","o",
                                    "r",":"," ">> \o text
        /\ Occurrences(returned.value, <<"\n">>) = <<>>
        /\ \A k \in 1..Len(detailed) :
              "id" \in DOMAIN detailed[k]
                  => Occurrences(returned.value, detailed[k].id) = <<>>

\* the fetch of the second of two messages found met a 404
C13_Witness ==
    /\ FetchFailed /\ tool = "gmail_search_messages"
    /\ Len(Listed) = 2 /\ Len(detailed) = 1
    /\ Len(requests) = 3
    /\ StartsWith(returned.value, <<"E","r","r","o","r"," ","s","e","a","r","c","h","i","n","g",
                                    " ","G","m","a","i","l",":"," ","G","m","a","i","l"," ","A",
                                    "P","I"," ","e","r","r","o","r",":"," ","4","0","4"," ","-",
                                    " ","N","o","t"," ","F","o","u","n","d">>)

\* the caller supplied a page_token
TokenSupplied == "page_token" \in DOMAIN params.args /\ params.args.page_token # None

\* C14: the list request of gmail_search_messages and gmail_list_drafts carries
\* as pageToken exactly the page_token the caller supplied, and carries no
\* pageToken when the caller supplied none.
C14_CursorVerbatim ==
    (tool \in {"gmail_search_messages", "gmail_list_drafts"} /\ requests # <<>>)
    => IF TokenSupplied
       THEN /\ "pageToken" \in DOMAIN requests[1].params
            /\ requests[1].params.pageToken = params.args.page_token
       ELSE "pageToken" \notin DOMAIN requests[1].params


\* the value of the first pair of a header sequence that carries the name, or
\* the default when no pair does
FirstOccurrence(headers, name, default) ==
    LET at == { i \in 1..Len(headers) : headers[i].name = name }
    IN  IF at = {} THEN default
        ELSE headers[CHOOSE i \in at : \A j \in at : i <= j].value

\* C15: when the header sequence of a message names a header more than once,
\* both renderings of the message show the value of the first occurrence.
C15_FirstOccurrenceWins ==
    (tool = "format_email" /\ pc = "done" /\ rendered.kind = "value") =>
        LET headers == params.message.payload.headers
        IN  /\ ShownAfter(rendered.value, <<"#"," ","E","m","a","i","l",":"," ">>)
                 = FirstOccurrence(headers, "Subject", NoSubject)
            /\ returned.value.subject = FirstOccurrence(headers, "Subject", NoSubject)
            /\ returned.value.from = FirstOccurrence(headers, "From", Unknown)


\* the tools that render a document from what they fetched
RenderingTools ==
    {"gmail_search_messages", "gmail_summarize_emails", "gmail_get_message",
     "gmail_get_thread", "gmail_get_attachment_text", "gmail_list_drafts",
     "gmail_list_labels"}

\* C16: a rendering tool that succeeds returns its document as truncate_response
\* leaves it, with either of the two notices, so a document longer than
\* CHARACTER_LIMIT is never returned whole.
C16_GovernorApplied ==
    (tool \in RenderingTools /\ pc = "done" /\ rendered # None
        /\ returned.kind = "value") =>
        \/ returned.value = truncate_response(rendered, NoneDict)
        \/ returned.value = truncate_response(rendered, [truncated |-> TRUE])


\* the error texts of the non-2xx replies and of the failed connection
ProviderErrorTexts ==
    { <<"G","m","a","i","l"," ","A","P","I"," ","e","r","r","o","r",":"," ","4","0","4"," ","-",
        " ","N","o","t"," ","F","o","u","n","d">>, <<"G","m","a","i","l"," ","A","P","I"," ","e","r","r","o","r",":"," ","4","0","1">>,
      <<"G","m","a","i","l"," ","A","P","I"," ","e","r","r","o","r",":"," ","5","0","0"," ","-",
        " ","U","n","k","n","o","w","n"," ","e","r","r","o","r">> }

TransportErrorTexts == { <<"A","l","l"," ","c","o","n","n","e","c","t","i","o","n"," ","a","t",
                           "t","e","m","p","t","s"," ","f","a","i","l","e","d">> }

\* what the diagnostic of an operation says after the error text
RemediationHint(name) ==
    LET d == StatusDiagnostic(name, <<>>)
    IN  SubSeq(d, Find(d, <<":"," ">>) + 2, Len(d))

\* C17: an invocation that ended on a non-2xx reply or on a failed connection
\* returns the operation's diagnostic around the error text, the same for both
\* kinds of failure, and the diagnostic ends with a remediation hint.
C17_FailuresMappedAlike ==
    (pc = "done" /\ Invoked /\ rendered = None /\ returned.kind = "value") =>
        \A text \in ProviderErrorTexts \cup TransportErrorTexts :
            Occurrences(returned.value, text) # <<>> =>
                /\ returned.value = StatusDiagnostic(tool, text)
                /\ RemediationHint(tool) # <<>>


\* the calls of make_gmail_request that returned a response to the tool
Answered == (IF listing = NoneDict THEN 0 ELSE 1) + Len(detailed)

\* C18: every call of make_gmail_request sends one request, or none when the
\* credential prompt fails; a call that fails is the last call of the invocation
\* and its request is in the log once, so nothing is sent again after a failure.
C18_NoRetries ==
    /\ prompts \in {Answered, Answered + 1}
    /\ Len(requests) \in {prompts - 1, prompts}
    /\ tool \notin ListTools => prompts <= 1
    /\ prompts = Answered + 1 =>
          /\ pc = "done"
          /\ rendered = None
          /\ Len(requests) = prompts =>
                \A k \in 1..(Len(requests) - 1) : requests[k] # requests[Len(requests)]
    /\ Len(requests) < prompts => prompts = Answered + 1

\* the fetch of the second of two entries met a 500 and was the last request
C18_Witness ==
    /\ tool = "gmail_list_drafts" /\ pc = "done" /\ Invoked
    /\ Len(detailed) = 1 /\ Len(listing.drafts) = 2
    /\ prompts = 3 /\ Len(requests) = 3
    /\ Occurrences(returned.value, <<"G","m","a","i","l"," ","A","P","I"," ","e","r","r","o","r",
                                     ":"," ","5","0","0">>) # <<>>


\* the tools annotated readOnlyHint: True
ReadOnlyTools ==
    {"gmail_search_messages", "gmail_summarize_emails", "gmail_get_message",
     "gmail_get_thread", "gmail_get_attachment_text", "gmail_list_drafts",
     "gmail_list_labels"}

\* C20: every request a read-only tool has sent, at any point of the invocation
\* and whether it succeeds or fails, is a GET without a JSON body.
C20_ReadOnlyOnlyGet ==
    tool \in ReadOnlyTools =>
        \A k \in 1..Len(requests) :
            /\ requests[k].method = "GET"
            /\ requests[k].json_data = NoneDict

\* the label listing ended on a 404 after its one request
C20_Witness ==
    /\ tool = "gmail_list_labels" /\ pc = "done" /\ Invoked
    /\ Len(requests) = 1 /\ requests[1].method = "GET"
    /\ returned.value = <<"E","r","r","o","r"," ","l","i","s","t","i","n","g"," ","l","a","b","e",
                          "l","s",":"," ","G","m","a","i","l"," ","A","P","I"," ","e","r","r","o",
                          "r",":"," ","4","0","4"," ","-"," ","N","o","t"," ","F","o","u","n","d">>


\* ---- two invocations running concurrently on the one event loop ----
\* In SpecConcurrent every variable but requests holds one value per invocation,
\* the locals of its coroutine; requests is the traffic of the AsyncClient the
\* invocations share, in the order it was sent, each entry with its sender and
\* the answer it got. An invocation is suspended in "elicit" (await ctx.elicit)
\* and in "request" (await client.request); any other invocation may run then.
Invocations == {"a", "b"}

ConcurrentTools == {"gmail_search_messages", "gmail_get_message"}

ConcurrentInputs(name) ==
    IF name = "gmail_search_messages"
    THEN { [query |-> Unread], [query |-> Unread, response_format |-> "json"],
           [query |-> <<>>] }
    ELSE { [message_id |-> <<"m","1">>] }

ConcurrentFailures ==
    { StatusReply(404, [error |-> [message |-> <<"N","o","t"," ","F","o","u","n","d">>]]), [kind |-> "transport"] }

\* a tool reading its parameters from a slot that the invocations of the same
\* tool share
Model_shared(i) ==
    params[CHOOSE j \in Invocations :
              tool[j] = tool[i] /\ params[j].model # NoneDict].model

\* the validated parameters of invocation i
Model(i) == params[i].model

\* the entries of the list answer of invocation i
Messages(i) == Get(listing[i], "messages", <<>>)

\* the request invocation i is about to send
CurrentRequest(i) ==
    IF tool[i] = "gmail_get_message"
    THEN Request("GET", <<"/","u","s","e","r","s","/","m","e","/","m","e","s","s","a","g","e","s",
                          "/">> \o Model(i).message_id, NoneDict, NoneDict)
    ELSE IF listing[i] = NoneDict
    THEN Request("GET", ListEndpoint(tool[i]), ListParams(tool[i], Model(i)), NoneDict)
    ELSE Request("GET", ListEndpoint(tool[i]) \o <<"/">>
                        \o Messages(i)[Len(detailed[i]) + 1].id, NoneDict, NoneDict)

\* the answers the provider may give to that request
CurrentReplies(i) ==
    IF tool[i] = "gmail_get_message"
    THEN { OkReply(Mailbox(1)), OkReply(MsgIncomplete) }
    ELSE IF listing[i] = NoneDict
    THEN { OkReply([messages |-> <<ListItem("messages", 1), ListItem("messages", 2)>>,
                    resultSizeEstimate |-> 2]),
           OkReply([messages |-> <<[threadId |-> <<"t","1">>]>>, resultSizeEstimate |-> 1]),
           OkReply([resultSizeEstimate |-> 0]) }
    ELSE BriefDetailReplies("messages", Messages(i)[Len(detailed[i]) + 1].id)

\* invocation i returns to its caller
ReturnOf(i, result, document) ==
    /\ pc' = [pc EXCEPT ![i] = "done"]
    /\ returned' = [returned EXCEPT ![i] = result]
    /\ rendered' = [rendered EXCEPT ![i] = document]

InitConcurrent ==
    /\ pc = [i \in Invocations |-> "validate"]
    /\ tool \in [Invocations -> ConcurrentTools]
    /\ params \in { p \in [Invocations -> { [args |-> a, model |-> NoneDict] :
                                              a \in UNION { ConcurrentInputs(t) :
                                                              t \in ConcurrentTools } }] :
                      \A i \in Invocations : p[i].args \in ConcurrentInputs(tool[i]) }
    /\ requests = <<>>
    /\ prompts = [i \in Invocations |-> 0]
    /\ listing = [i \in Invocations |-> NoneDict]
    /\ detailed = [i \in Invocations |-> <<>>]
    /\ rendered = [i \in Invocations |-> None]
    /\ returned = [i \in Invocations |-> NoReturn]

\* the framework validates the arguments of invocation i and starts the tool
ValidateOf(i) ==
    /\ pc[i] = "validate"
    /\ LET checked == InputModel(tool[i], params[i].args)
       IN  IF checked.valid
           THEN /\ params' = [params EXCEPT ![i].model = checked.model]
                /\ pc' = [pc EXCEPT ![i] = "elicit"]
                /\ UNCHANGED <<rendered, returned>>
           ELSE /\ ReturnOf(i, Raised("pydantic.ValidationError", <<"v","a","l","i","d","a","t","i","o","n"," ","e","r","r","o","r">>),
                            None)
                /\ UNCHANGED params
    /\ UNCHANGED <<tool, requests, prompts, listing, detailed>>

\* invocation i calls make_gmail_request and is asked for the credential; the
\* endpoint of a per-entry request is computed before the call
Elicit(i) ==
    /\ pc[i] = "elicit"
    /\ IF /\ tool[i] # "gmail_get_message" /\ listing[i] # NoneDict
          /\ "id" \notin DOMAIN Messages(i)[Len(detailed[i]) + 1]
       THEN /\ ReturnOf(i, Catch(tool[i], KeyError(<<"i","d">>)), None)
            /\ UNCHANGED prompts
       ELSE /\ prompts' = [prompts EXCEPT ![i] = @ + 1]
            /\ \/ /\ pc' = [pc EXCEPT ![i] = "request"]
                  /\ UNCHANGED <<rendered, returned>>
               \/ ReturnOf(i, Catch(tool[i], make_gmail_request([kind |-> "no_credential"])),
                           None)
    /\ UNCHANGED <<tool, params, requests, listing, detailed>>

\* what invocation i does with the answer to its request, up to its next await
Continue(i, response) ==
    IF response.kind = "raised"
    THEN ReturnOf(i, Catch(tool[i], response), None) /\ UNCHANGED <<listing, detailed>>
    ELSE IF tool[i] = "gmail_get_message"
    THEN LET outcome == gmail_get_message_try(Model(i), response.value)
         IN  /\ ReturnOf(i, Catch(tool[i], outcome.result), outcome.document)
             /\ listing' = [listing EXCEPT ![i] = response.value]
             /\ UNCHANGED detailed
    ELSE IF listing[i] = NoneDict
    THEN /\ listing' = [listing EXCEPT ![i] = response.value]
         /\ UNCHANGED detailed
         /\ IF Get(response.value, "messages", <<>>) = <<>>
            THEN ReturnOf(i, Returned(NothingFound(tool[i])), None)
            ELSE /\ pc' = [pc EXCEPT ![i] = "elicit"]
                 /\ UNCHANGED <<rendered, returned>>
    ELSE /\ detailed' = [detailed EXCEPT ![i] = Append(@, response.value)]
         /\ UNCHANGED listing
         /\ IF Len(detailed[i]) + 1 < Len(Messages(i))
            THEN /\ pc' = [pc EXCEPT ![i] = "elicit"]
                 /\ UNCHANGED <<rendered, returned>>
            ELSE LET outcome == ListTry(tool[i], Model(i), listing[i],
                                        Append(detailed[i], response.value))
                 IN  ReturnOf(i, Catch(tool[i], outcome.result), outcome.document)

\* the request of invocation i goes through the shared client and is answered
Transfer(i) ==
    /\ pc[i] = "request"
    /\ \E reply \in CurrentReplies(i) \cup ConcurrentFailures :
          /\ requests' = Append(requests, [by |-> i, request |-> CurrentRequest(i),
                                           reply |-> reply])
          /\ Continue(i, make_gmail_request(reply))
    /\ UNCHANGED <<tool, params, prompts>>

NextConcurrent ==
    \E i \in Invocations : ValidateOf(i) \/ Elicit(i) \/ Transfer(i)

SpecConcurrent == InitConcurrent /\ [][NextConcurrent]_vars


\* the answers invocation i got, in order; a failed credential prompt stands for
\* the answer to the call it ended
Received(i) ==
    LET own == SelectSeq(requests, LAMBDA e : e.by = i)
        replies == [k \in 1..Len(own) |-> own[k].reply]
    IN  IF prompts[i] > Len(own) THEN Append(replies, [kind |-> "no_credential"])
        ELSE replies

\* what a tool returns when it runs alone from start to end and the provider
\* gives the answers of replies, one per call
Alone(name, args, replies) ==
    LET checked == InputModel(name, args)
        first == make_gmail_request(replies[1])
        items == Get(first.value, "messages", <<>>)
        Fetch[k \in 0..Len(items)] ==
            IF k = 0 THEN [error |-> NoReturn, details |-> <<>>]
            ELSE IF Fetch[k - 1].error # NoReturn THEN Fetch[k - 1]
            ELSE IF "id" \notin DOMAIN items[k]
            THEN [error |-> KeyError(<<"i","d">>), details |-> Fetch[k - 1].details]
            ELSE LET response == make_gmail_request(replies[k + 1])
                 IN  IF response.kind = "raised"
                     THEN [error |-> response, details |-> Fetch[k - 1].details]
                     ELSE [error |-> NoReturn,
                           details |-> Append(Fetch[k - 1].details, response.value)]
        fetched == Fetch[Len(items)]
    IN  IF ~checked.valid THEN Raised("pydantic.ValidationError", <<"v","a","l","i","d","a","t","i","o","n"," ","e","r","r","o","r">>)
        ELSE IF first.kind = "raised" THEN Catch(name, first)
        ELSE IF name = "gmail_get_message"
        THEN Catch(name, gmail_get_message_try(checked.model, first.value).result)
        ELSE IF items = <<>> THEN Returned(NothingFound(name))
        ELSE IF fetched.error # NoReturn THEN Catch(name, fetched.error)
        ELSE Catch(name, ListTry(name, checked.model, first.value, fetched.details).result)

\* C19: however the steps of two concurrent invocations interleave at their
\* credential prompts and requests, an invocation that has ended returned what
\* the same tool returns when it runs alone with the same arguments and gets the
\* same answers from the provider.
C19_InvocationsIndependent ==
    \A i \in Invocations :
        pc[i] = "done" => returned[i] = Alone(tool[i], params[i].args, Received(i))

\* two searches with different formats ended with different documents after
\* their requests alternated on the shared client
C19_Witness ==
    /\ \A i \in Invocations :
          /\ pc[i] = "done" /\ tool[i] = "gmail_search_messages"
          /\ Len(detailed[i]) = 2 /\ rendered[i] # None
    /\ params["a"].model.response_format # params["b"].model.response_format
    /\ Len(requests) = 6
    /\ \A k \in 1..5 : requests[k].by # requests[k + 1].by
    /\ returned["a"] # returned["b"]
    /\ StartsWith(returned["a"].value, <<"#"," ","G","m","a","i","l"," ","S","e","a","r","c","h",
                                         " ","R","e","s","u","l","t","s">>)


\* the least element of a non-empty set of indices
Least(S) == CHOOSE i \in S : \A j \in S : i <= j

\* C21: extract_email_body looks at the immediate children only: it gives the
\* decoded data of the first text/plain child that has data, passing over
\* text/plain children without data and text/plain parts nested deeper; without
\* such a child it gives the decoded top-level data; without that either it
\* returns the empty string and raises nothing.
C21_ImmediateChildrenOnly ==
    (tool = "extract_email_body" /\ pc = "done") =>
        LET message == params.message
        IN  IF PlainChildren(message) # {}
            THEN returned = DecodeBody(InlineData(ChildParts(message)[
                                           Least(PlainChildren(message))]))
            ELSE IF TruthyStr(InlineData(message.payload))
            THEN returned = DecodeBody(InlineData(message.payload))
            ELSE returned = Returned(<<>>)

\* a text/plain child without data, then a text/plain child with data: the
\* second one's text came back although the payload has data of its own
C21_Witness ==
    /\ tool = "extract_email_body" /\ pc = "done"
    /\ Len(ChildParts(params.message)) = 2
    /\ PlainChildren(params.message) = {2}
    /\ Get(ChildParts(params.message)[1], "mimeType", None) = TextPlain
    /\ InlineData(ChildParts(params.message)[1]) = None
    /\ InlineData(params.message.payload) = DataTop
    /\ returned = Returned(<<"B","o","d","y">>)

\* the only text/plain part with data is nested in a child: the top-level text
\* came back
C21_WitnessNested ==
    /\ tool = "extract_email_body" /\ pc = "done"
    /\ Len(ChildParts(params.message)) = 1
    /\ "parts" \in DOMAIN ChildParts(params.message)[1]
    /\ InlineData(ChildParts(params.message)[1].parts[1]) = DataBody
    /\ InlineData(params.message.payload) = DataTop
    /\ returned = Returned(<<"T","o","p">>)

\* ---- the traversal of extract_attachments_info, call by call ----
\* In SpecWalk pc is the call stack of the traversal: its first frame is the loop
\* of extract_attachments_info over payload["parts"], every further frame a call
\* of process_part that has not returned; a frame holds the parts its loop runs
\* over and the index of the next one. detailed is the list attachments.
WalkPayloads ==
    { [parts |-> ps] : ps \in PartForests(2) } \cup { EmptyDict, [parts |-> <<NestedPart(65)>>] }

InitWalk ==
    /\ tool = "extract_attachments_info"
    /\ \E p \in WalkPayloads : params = [message |-> [id |-> <<"m","1">>, payload |-> p]]
    /\ pc = << [parts |-> Get(Get(params.message, "payload", EmptyDict), "parts", <<>>),
                next |-> 1] >>
    /\ requests = <<>>
    /\ prompts = 0
    /\ listing = NoneDict
    /\ detailed = <<>>
    /\ rendered = None
    /\ returned = NoReturn

\* the frame of the innermost call
Top == pc[Len(pc)]

\* the loop of the innermost call takes its next part and calls process_part on
\* it, which appends the descriptor if the part has a filename
CallProcessPart ==
    /\ pc # <<>>
    /\ Top.next <= Len(Top.parts)
    /\ LET part == Top.parts[Top.next]
       IN  /\ detailed' = detailed \o (IF TruthyStr(Get(part, "filename", None))
                                        THEN <<AttachmentDescriptor(part)>> ELSE <<>>)
           /\ pc' = Append([pc EXCEPT ![Len(pc)].next = @ + 1],
                           [parts |-> Get(part, "parts", <<>>), next |-> 1])
    /\ UNCHANGED <<tool, params, requests, prompts, listing, rendered, returned>>

\* the loop of a call of process_part has ended: the call returns
ReturnProcessPart ==
    /\ Len(pc) > 1
    /\ Top.next > Len(Top.parts)
    /\ pc' = SubSeq(pc, 1, Len(pc) - 1)
    /\ UNCHANGED <<tool, params, requests, prompts, listing, detailed, rendered, returned>>

\* the loop of extract_attachments_info has ended: return attachments
ReturnAttachments ==
    /\ Len(pc) = 1
    /\ Top.next > Len(Top.parts)
    /\ returned' = Returned(detailed)
    /\ pc' = <<>>
    /\ UNCHANGED <<tool, params, requests, prompts, listing, detailed, rendered>>

NextWalk == CallProcessPart \/ ReturnProcessPart \/ ReturnAttachments

SpecWalk == InitWalk /\ [][NextWalk]_vars

\* C22: attachment discovery never has more than 64 calls of process_part
\* nested in one another, a deeper part tree being malformed input that is not
\* walked.
C22_DepthCapped == Len(pc) - 1 <= 64


\* C23: a list tool's requests are the list request, then one request per entry
\* of the list in list order, each sent only when the answers to all earlier
\* ones have arrived; entries are fetched only from a list that has some; and an
\* invocation that rendered its document has sent exactly 1 + N requests.
C23_ListThenDetails ==
    (tool \in ListTools /\ requests # <<>>) =>
        /\ requests[1].method = "GET"
        /\ requests[1].endpoint = Collection
        /\ Len(requests) <= Len(detailed) + 2
        /\ Len(requests) > 1 =>
              /\ listing # NoneDict
              /\ ListKey(tool) \in DOMAIN listing
              /\ Len(requests) - 1 <= Len(Listed)
              /\ \A k \in 2..Len(requests) :
                    /\ requests[k].method = "GET"
                    /\ requests[k].endpoint = Collection \o <<"/">> \o Listed[k - 1].id
                    /\ requests[k].params = NoneDict
        /\ \A k \in 1..Len(detailed) : Len(requests) >= k + 1
        /\ (pc = "done" /\ rendered # None) =>
              /\ Len(Listed) >= 1
              /\ Len(detailed) = Len(Listed)
              /\ Len(requests) = 1 + Len(Listed)
              /\ prompts = 1 + Len(Listed)

\* a draft list of two entries was rendered after three requests
C23_Witness ==
    /\ tool = "gmail_list_drafts" /\ pc = "done" /\ rendered # None
    /\ Len(rendered) < 1000
    /\ Len(listing.drafts) = 2
    /\ listing.drafts[1].id # listing.drafts[2].id
    /\ Len(requests) = 3
    /\ requests[3].endpoint = <<"/","u","s","e","r","s","/","m","e","/","d","r","a","f","t","s",
                                "/">> \o listing.drafts[2].id


\* the bodies of the fetched messages that have one, in order
ShownBodies ==
    LET bodies == [k \in 1..Len(detailed) |-> extract_email_body(detailed[k]).value]
    IN  SelectSeq(bodies, LAMBDA body : body # <<>>)

\* what a Content section shows of a body
Preview(body) == IF Len(body) > 1000 THEN SubSeq(body, 1, 1000) \o <<".",".",".">> ELSE body

C24_WitnessWhole ==
    /\ tool = "gmail_summarize_emails" /\ pc = "done" /\ rendered # None
    /\ params.model.include_body
    /\ Len(detailed) = 1
    /\ Len(ShownBodies) = 1 /\ Len(ShownBodies[1]) = 1000
    /\ Occurrences(rendered, <<"\n","*","*","C","o","n","t","e","n","t",":","*","*","\n">> \o Rep("b", 1000) \o <<"\n","\n","-","-","-">>) # <<>>


\* C25: when the document of a search or of a draft listing is longer than
\* CHARACTER_LIMIT, what is returned ends with the advice to use filters or
\* pagination if the list response carried a next-page cursor, and with the
\* plain remark that the content was longer if it carried none.
C25_GuidanceFollowsCursor ==
    (tool \in {"gmail_search_messages", "gmail_list_drafts"} /\ pc = "done"
        /\ rendered # None /\ Len(rendered) > CHARACTER_LIMIT) =>
        IF TruthyStr(Get(listing, "nextPageToken", None))
        THEN EndsWith(returned.value, <<"U","s","e"," ","f","i","l","t","e","r","s"," ","o","r",
                                        " ","p","a","g","i","n","a","t","i","o","n"," ","t","o",
                                        " ","r","e","f","i","n","e"," ","r","e","s","u","l","t",
                                        "s",".","]">>)
        ELSE EndsWith(returned.value, <<"O","r","i","g","i","n","a","l"," ","c","o","n","t","e",
                                        "n","t"," ","w","a","s"," ","l","o","n","g","e","r",".",
                                        "]">>)


(***************************************************************************)
(* gmail_tools.py: the bridge adapter                                      *)
(***************************************************************************)
\* In SpecBridge tool is a method of Tools, params.args the keyword arguments of
\* the call and params.model the arguments mapping the method builds; requests
\* is the log of requests.post calls and listing the answer to the post.
Valves == [bridge_url |-> <<"h","t","t","p",":","/","/","l","o","c","a","l","h","o","s","t",":",
                            "3","0","0","2">>, timeout |-> 300]

BridgeMethods == {"search_emails", "get_email", "list_drafts", "delete_draft", "list_labels"}

\* the parameters of a method without default, and the defaults of the others
Signature(method) ==
    CASE method = "search_emails" ->
            [required |-> {"query"},
             defaults |-> [max_results |-> 20, response_format |-> <<"m","a","r","k","d","o","w","n">>]]
      [] method = "get_email" ->
            [required |-> {"message_id"}, defaults |-> [response_format |-> <<"m","a","r","k","d","o","w","n">>]]
      [] method = "list_drafts" ->
            [required |-> {},
             defaults |-> [max_results |-> 20, response_format |-> <<"m","a","r","k","d","o","w","n">>]]
      [] method = "delete_draft" -> [required |-> {"draft_id"}, defaults |-> EmptyDict]
      [] method = "list_labels" ->
            [required |-> {}, defaults |-> [response_format |-> <<"m","a","r","k","d","o","w","n">>]]

\* the tool a method dispatches to
ToolName(method) ==
    CASE method = "search_emails" -> "gmail_search_messages"
      [] method = "get_email" -> "gmail_get_message"
      [] method = "list_drafts" -> "gmail_list_drafts"
      [] method = "delete_draft" -> "gmail_delete_draft"
      [] method = "list_labels" -> "gmail_list_labels"

\* the arguments mapping a method builds from its parameters
Arguments(method, a) ==
    CASE method = "search_emails" ->
            [query |-> a.query, max_results |-> a.max_results,
             response_format |-> a.response_format]
      [] method = "get_email" ->
            [message_id |-> a.message_id, response_format |-> a.response_format,
             include_attachments_info |-> TRUE]
      [] method = "list_drafts" ->
            [max_results |-> a.max_results, response_format |-> a.response_format]
      [] method = "delete_draft" -> [draft_id |-> a.draft_id]
      [] method = "list_labels" -> [response_format |-> a.response_format]

\* the call of a method with keyword arguments: Python binds them to the
\* parameters and raises TypeError for a name the method does not have or a
\* required parameter that is not given
BridgeMethod(method, kwargs) ==
    LET sig == Signature(method)
    IN  IF \E k \in DOMAIN kwargs : k \notin sig.required \cup DOMAIN sig.defaults
        THEN Raised("TypeError", <<"g","o","t"," ","a","n"," ","u","n","e","x","p","e","c","t",
                                   "e","d"," ","k","e","y","w","o","r","d"," ","a","r","g","u",
                                   "m","e","n","t">>)
        ELSE IF \E k \in sig.required : k \notin DOMAIN kwargs
        THEN Raised("TypeError", <<"m","i","s","s","i","n","g"," ","1"," ","r","e","q","u","i",
                                   "r","e","d"," ","p","o","s","i","t","i","o","n","a","l"," ",
                                   "a","r","g","u","m","e","n","t">>)
        ELSE Returned(Arguments(method, kwargs @@ sig.defaults))

BridgeInputs(method) ==
    CASE method = "search_emails" ->
            { [query |-> Unread],
              [query |-> Unread, max_results |-> 5, response_format |-> <<"j","s","o","n">>],
              [query |-> Unread, page_token |-> Tok123],
              EmptyDict }
      [] method = "get_email" -> { [message_id |-> <<"m","1">>], EmptyDict }
      [] method = "list_drafts" ->
            { EmptyDict, [max_results |-> 5], [page_token |-> Tok123] }
      [] method = "delete_draft" -> { [draft_id |-> <<"d","1">>] }
      [] method = "list_labels" -> { EmptyDict, [response_format |-> <<"j","s","o","n">>] }

\* what requests.post may come to: a response with a status and a body that
\* parses as JSON or not, or one of its exceptions
BridgeReplies ==
    { [kind |-> "response", status_code |-> 200, text |-> <<"{",".",".",".","}">>,
       json |-> Returned(j)] :
        j \in { [result |-> [output |-> <<"#"," ","G","m","a","i","l"," ","S","e","a","r","c","h",
                                          " ","R","e","s","u","l","t","s">>]],
                [result |-> [output |-> <<>>]],
                [result |-> [error |-> <<"f","a","i","l","e","d">>]],
                [result |-> EmptyDict],
                [result |-> NoneDict],
                EmptyDict,
                [result |-> [output |-> <<"n","e","x","t",":"," ","t","o","k","1","2","3">>], id |-> <<"1">>] } }
    \cup { [kind |-> "response", status_code |-> 200, text |-> <<"<","h","t","m","l",">">>,
            json |-> Raised("requests.exceptions.JSONDecodeError",
                            <<"E","x","p","e","c","t","i","n","g"," ","v","a","l","u","e",":"," ",
                              "l","i","n","e"," ","1"," ","c","o","l","u","m","n"," ","1"," ","(",
                              "c","h","a","r"," ","0",")">>)] }
    \cup { [kind |-> "response", status_code |-> c, text |-> <<"b","o","o","m">>,
            json |-> Returned([result |-> [output |-> <<"u","n","u","s","e","d">>]])] :
             c \in {201, 404, 500} }
    \cup { [kind |-> "raised", cls |-> "requests.exceptions.Timeout", text |-> <<"t","i","m","e","d"," ","o","u","t">>],
           [kind |-> "raised", cls |-> "requests.exceptions.ConnectionError",
            text |-> <<"r","e","f","u","s","e","d">>],
           [kind |-> "raised", cls |-> "requests.exceptions.InvalidURL",
            text |-> <<"I","n","v","a","l","i","d"," ","U","R","L">>] }

\* _execute_tool that lets the failures of the post reach the caller
Tools_execute_tool_raising(r) ==
    IF r.kind = "raised" THEN Raised(r.cls, r.text)
    ELSE IF r.status_code # 200
    THEN Raised("requests.exceptions.HTTPError", IntToStr(r.status_code))
    ELSE IF r.json.kind = "raised" THEN r.json
    ELSE IF Get(r.json.value, "result", EmptyDict) = NoneDict
    THEN Raised("AttributeError", <<"'","N","o","n","e","T","y","p","e","'"," ","o","b","j","e",
                                    "c","t"," ","h","a","s"," ","n","o"," ","a","t","t","r","i",
                                    "b","u","t","e"," ","'","g","e","t","'">>)
    ELSE Returned(Get(Get(r.json.value, "result", EmptyDict), "output", <<"N","o"," ","o","u","t","p","u","t">>))

\* what _execute_tool returns when requests.post came to r
Tools_execute_tool(r) ==
    IF r.kind = "raised"
    THEN CASE r.cls = "requests.exceptions.Timeout" ->
                 Returned(<<"R","e","q","u","e","s","t"," ","t","i","m","e","d"," ","o","u","t",
                            " ","a","f","t","e","r"," ">> \o IntToStr(Valves.timeout) \o <<" ","s","e","c","o","n","d","s",".">>)
           [] r.cls = "requests.exceptions.ConnectionError" ->
                 Returned(<<"C","a","n","n","o","t"," ","c","o","n","n","e","c","t"," ","t","o",
                            " ","G","m","a","i","l"," ","M","C","P"," ","b","r","i","d","g","e",
                            " ","a","t"," ">> \o Valves.bridge_url)
           [] OTHER -> Returned(<<"E","r","r","o","r",":"," ">> \o r.text)
    ELSE IF r.status_code # 200
    THEN Returned(<<"H","T","T","P"," ","E","r","r","o","r",":"," ">> \o IntToStr(r.status_code) \o <<"\n","R","e","s","p","o","n","s","e",":"," ">> \o r.text)
    ELSE IF r.json.kind = "raised" THEN Returned(<<"E","r","r","o","r",":"," ">> \o r.json.value)
    ELSE IF Get(r.json.value, "result", EmptyDict) = NoneDict
    THEN Returned(<<"E","r","r","o","r",":"," ","'","N","o","n","e","T","y","p","e","'"," ","o",
                    "b","j","e","c","t"," ","h","a","s"," ","n","o"," ","a","t","t","r","i","b",
                    "u","t","e"," ","'","g","e","t","'">>)
    ELSE Returned(Get(Get(r.json.value, "result", EmptyDict), "output", <<"N","o"," ","o","u","t","p","u","t">>))

InitBridge ==
    /\ pc = "call"
    /\ tool \in BridgeMethods
    /\ params \in { [args |-> a, model |-> NoneDict] : a \in BridgeInputs(tool) }
    /\ requests = <<>>
    /\ prompts = 0
    /\ listing = NoneDict
    /\ detailed = <<>>
    /\ rendered = None
    /\ returned = NoReturn

\* the method binds its parameters and builds the arguments of the tool
CallMethod ==
    /\ pc = "call"
    /\ LET bound == BridgeMethod(tool, params.args)
       IN  IF bound.kind = "raised"
           THEN /\ pc' = "done"
                /\ returned' = bound
                /\ UNCHANGED params
           ELSE /\ pc' = "post"
                /\ params' = [params EXCEPT !.model = bound.value]
                /\ UNCHANGED returned
    /\ UNCHANGED <<tool, requests, prompts, listing, detailed, rendered>>

\* _execute_tool posts the payload and turns what comes back into its result
ExecuteTool ==
    /\ pc = "post"
    /\ \E r \in BridgeReplies :
          /\ requests' = Append(requests,
                                [method |-> "POST",
                                 url |-> Valves.bridge_url \o <<"/","v","1","/","t","o","o","l","s","/","e","x","e","c",
                                         "u","t","e">>,
                                 json |-> [tool_name |-> ToolName(tool),
                                           arguments |-> params.model],
                                 timeout |-> Valves.timeout])
          /\ listing' = r
          /\ returned' = Tools_execute_tool(r)
    /\ pc' = "done"
    /\ UNCHANGED <<tool, params, prompts, detailed, rendered>>

NextBridge == CallMethod \/ ExecuteTool

SpecBridge == InitBridge /\ [][NextBridge]_vars

\* C26: a call of _execute_tool posts once and returns, never raising: from a
\* 200 answer the output under result, or "No output" when result or output is
\* not there; from any other status a text that begins "HTTP Error: " and the
\* status; from a timeout, a failed connection or any other exception a
\* diagnostic text.
C26_BridgeReturns ==
    /\ pc = "post" => requests = <<>>
    /\ (pc = "done" /\ Invoked) =>
          /\ Len(requests) = 1
          /\ requests[1].method = "POST"
          /\ requests[1].json.tool_name = ToolName(tool)
          /\ returned.kind = "value"
          /\ IF listing.kind = "raised"
             THEN \/ StartsWith(returned.value, <<"R","e","q","u","e","s","t"," ","t","i","m","e","d"," ","o","u","t"," ","a",
                     "f","t","e","r"," ">>)
                  \/ StartsWith(returned.value, <<"C","a","n","n","o","t"," ","c","o","n","n","e","c","t"," ","t","o"," ",
                          "G","m","a","i","l"," ","M","C","P"," ","b","r","i","d","g","e"," ","a",
                          "t"," ">>)
                  \/ StartsWith(returned.value, <<"E","r","r","o","r",":"," ">>)
             ELSE IF listing.status_code # 200
             THEN StartsWith(returned.value,
                             <<"H","T","T","P"," ","E","r","r","o","r",":"," ">> \o IntToStr(listing.status_code))
             ELSE IF listing.json.kind = "raised" \/ listing.json.value = [result |-> NoneDict]
             THEN StartsWith(returned.value, <<"E","r","r","o","r",":"," ">>)
             ELSE IF /\ "result" \in DOMAIN listing.json.value
                     /\ "output" \in DOMAIN listing.json.value.result
             THEN returned.value = listing.json.value.result.output
             ELSE returned.value = <<"N","o"," ","o","u","t","p","u","t">>

\* a 200 answer whose result has no output gave "No output"
C26_Witness ==
    /\ pc = "done" /\ Invoked /\ tool = "delete_draft"
    /\ listing.kind = "response" /\ listing.status_code = 200
    /\ listing.json = Returned([result |-> [error |-> <<"f","a","i","l","e","d">>]])
    /\ Len(requests) = 1
    /\ returned = Returned(<<"N","o"," ","o","u","t","p","u","t">>)

\* C27: a caller that passes the cursor it received to search_emails or
\* list_drafts has it delivered: the method posts one request whose arguments
\* carry the cursor as page_token.
C27_CursorThroughBridge ==
    (tool \in {"search_emails", "list_drafts"} /\ pc = "done"
        /\ "page_token" \in DOMAIN params.args) =>
        /\ Len(requests) = 1
        /\ "page_token" \in DOMAIN requests[1].json.arguments
        /\ requests[1].json.arguments.page_token = params.args.page_token


\* C28: for one thread response gmail_get_thread returns a document in
\* Markdown mode exactly when it returns one in JSON mode, a thread whose
\* message list is empty or absent included, and the two documents give the
\* same number of messages.
C28_ThreadFormatsAgree ==
    (tool = "gmail_get_thread" /\ pc = "done" /\ Invoked /\ listing # NoneDict) =>
        LET md == gmail_get_thread_try(
                      [params.model EXCEPT !.response_format = "markdown"], listing)
            js == gmail_get_thread_try(
                      [params.model EXCEPT !.response_format = "json"], listing)
            n == IntToStr(Len(Get(listing, "messages", <<>>)))
        IN  /\ rendered = (IF params.model.response_format = "markdown"
                           THEN md.document ELSE js.document)
            /\ (md.document # None) <=> (js.document # None)
            /\ md.document # None =>
                  /\ Contains(md.document, <<"*","*","M","e","s","s","a","g","e","s"," ","i","n"," ","t","h","r","e",
                          "a","d",":","*","*"," ">> \o n \o <<"\n">>)
                  /\ Contains(js.document, <<"\"","m","e","s","s","a","g","e","_","c","o","u","n","t","\"",":"," ">> \o n \o <<",">>)


\* C29: when the list response has no entries, gmail_search_messages,
\* gmail_summarize_emails and gmail_list_drafts return their fixed text after
\* the one list request, without a request for any entry, whatever the
\* response format and whether or not the response carries a cursor.
C29_EmptyListingShortCircuits ==
    (tool \in {"gmail_search_messages", "gmail_summarize_emails", "gmail_list_drafts"}
        /\ Invoked /\ listing # NoneDict /\ Get(listing, ListKey(tool), <<>>) = <<>>) =>
        /\ pc = "done"
        /\ Len(requests) = 1
        /\ detailed = <<>>
        /\ rendered = None
        /\ returned = Returned(
              CASE tool = "gmail_search_messages" ->
                      <<"N","o"," ","m","e","s","s","a","g","e","s"," ","f","o","u","n","d"," ",
                        "m","a","t","c","h","i","n","g"," ","t","h","e"," ","s","e","a","r","c",
                        "h"," ","q","u","e","r","y",".">>
                [] tool = "gmail_summarize_emails" ->
                      <<"N","o"," ","m","e","s","s","a","g","e","s"," ","f","o","u","n","d"," ",
                        "m","a","t","c","h","i","n","g"," ","t","h","e"," ","s","e","a","r","c",
                        "h"," ","q","u","e","r","y","."," ","C","a","n","n","o","t"," ","g","e",
                        "n","e","r","a","t","e"," ","s","u","m","m","a","r","y",".">>
                [] tool = "gmail_list_drafts" -> <<"N","o"," ","d","r","a","f","t","s"," ","f","o","u","n","d",".">>)

\* the draft listing asked for in JSON got an empty list with a cursor
C29_Witness ==
    /\ tool = "gmail_list_drafts" /\ pc = "done" /\ Invoked
    /\ params.model.response_format = "json"
    /\ Get(listing, "drafts", None) = <<>>
    /\ Get(listing, "nextPageToken", None) = Tok123
    /\ Len(requests) = 1
    /\ returned = Returned(<<"N","o"," ","d","r","a","f","t","s"," ","f","o","u","n","d",".">>)

\* the search asked for in JSON got a response without a list
C29_WitnessSearch ==
    /\ tool = "gmail_search_messages" /\ pc = "done" /\ Invoked
    /\ params.model.response_format = "json"
    /\ listing # NoneDict /\ "messages" \notin DOMAIN listing
    /\ returned = Returned(<<"N","o"," ","m","e","s","s","a","g","e","s"," ","f","o","u","n","d",
                             " ","m","a","t","c","h","i","n","g"," ","t","h","e"," ","s","e","a",
                             "r","c","h"," ","q","u","e","r","y",".">>)


\* the number of "- " lines of a document
ListedLines(document) ==
    Cardinality({ i \in 2..(Len(document) - 1) :
                    document[i - 1] = "\n" /\ document[i] = "-" /\ document[i + 1] = " " })

\* C30: in the Markdown document of gmail_list_labels the number after
\* "Total" is the number of label lines, and every label of the response has
\* its line, whatever its type and also when it has none.
C30_TotalCountsListedLabels ==
    (tool = "gmail_list_labels" /\ pc = "done" /\ Invoked
        /\ params.model.response_format = "markdown" /\ rendered # None) =>
        LET labels == Get(listing, "labels", <<>>)
        IN  /\ Contains(rendered, <<"*","*","T","o","t","a","l",":","*","*"," ">> \o IntToStr(Len(labels)) \o <<"\n">>)
            /\ ListedLines(rendered) = Len(labels)
            /\ \A i \in 1..Len(labels) :
                  Contains(rendered, <<"-"," ","*","*">> \o labels[i].name \o <<"*","*"," ","(","I","D",":"," ">>
                                     \o labels[i].id \o <<")","\n">>)

============================================================================
